---- MODULE Spec2Model ----
(***************************************************************************)
(* A model of the smtp-relay tunnel: the authentication token               *)
(* (src/src/crypto.rs), the server's SMTP masquerade state machine          *)
(* (src/src/server.rs, src/src/proto/smtp.rs), the allowlist check          *)
(* (src/src/config.rs) and the client's handshake (src/src/client.rs).      *)
(*                                                                         *)
(* Strings are sequences of byte values (ASCII codes).  Option<T> is a      *)
(* sequence of length 0 (None) or 1 (Some).                                 *)
(***************************************************************************)
EXTENDS Integers, Sequences, FiniteSets, TLC

VARIABLES
    tk,        \* the token harness: inputs, the presented token, verify's results
    session,   \* server.rs Session: username, state, binary_mode
    spc,       \* the server worker's position in handle_client / handle_tls_session
    addr,      \* Session.client_addr: the peer's source IP
    now,       \* SystemTime::now() in seconds
    last,      \* the command the server handled last and what it answered
    hist,      \* what the server has sent so far on this connection
    c2s,       \* bytes in flight from the client to the server
    s2c,       \* reply lines in flight from the server to the client
    cpc,       \* the client's position in smtp_handshake
    cwrote,    \* what the client has written, and to which transport
    fc,        \* a FrameCodec and its buffer, fed a byte stream in chunks
    px,        \* one ProxyStream::proxy call: its two copy loops
    cl,        \* Client::run: the reconnect loop, the tunnel and the SOCKS5 listener
    ut,        \* Server.users behind its RwLock, reload_users and the AUTH handlers
    sk         \* one SOCKS5 connection in socks5.rs handle_client

vars == <<tk, session, spc, addr, now, last, hist, c2s, s2c, cpc, cwrote, fc, px, cl, ut, sk>>

None == <<>>
Some(x) == <<x>>

(***************************************************************************)
(* Byte strings                                                            *)
(***************************************************************************)
COLON == <<58>>
PLUS == <<43>>
PAD == <<61>>

\* "smtp-tunnel-auth:"
AuthPrefix == <<115,109,116,112,45,116,117,110,110,101,108,45,97,117,116,104,58>>

IsDigit(b) == b >= 48 /\ b <= 57

RECURSIVE DecStr(_)
\* format!("{timestamp}") of an unsigned integer
DecStr(n) == IF n < 10 THEN <<48 + n>> ELSE DecStr(n \div 10) \o <<48 + (n % 10)>>

RECURSIVE DigitsVal(_, _)
DigitsVal(s, acc) ==
    IF s = <<>> THEN acc ELSE DigitsVal(Tail(s), acc * 10 + (Head(s) - 48))

\* str::parse::<u64>(): an optional leading '+', then one or more decimal
\* digits; None otherwise.  (The values of the model stay far below 2^64, so
\* the overflow error of the parser cannot occur.)
ParseU64(s) ==
    LET body == IF s # <<>> /\ <<Head(s)>> = PLUS THEN Tail(s) ELSE s
    IN  IF body # <<>> /\ \A i \in 1..Len(body) : IsDigit(body[i])
        THEN Some(DigitsVal(body, 0))
        ELSE None

RECURSIVE SplitAcc(_, _, _)
SplitAcc(s, sep, cur) ==
    IF s = <<>> THEN <<cur>>
    ELSE IF <<Head(s)>> = sep THEN <<cur>> \o SplitAcc(Tail(s), sep, <<>>)
    ELSE SplitAcc(Tail(s), sep, Append(cur, Head(s)))

\* str::split(':'): the pieces between the separators, empty pieces kept
Split(s, sep) == SplitAcc(s, sep, <<>>)

(***************************************************************************)
(* base64::engine::general_purpose::STANDARD                               *)
(***************************************************************************)
B64Char(v) ==
    IF v < 26 THEN 65 + v
    ELSE IF v < 52 THEN 97 + (v - 26)
    ELSE IF v < 62 THEN 48 + (v - 52)
    ELSE IF v = 62 THEN 43 ELSE 47

\* the 6-bit value of a base64 character, -1 for a byte outside the alphabet
B64Val(c) ==
    IF c >= 65 /\ c <= 90 THEN c - 65
    ELSE IF c >= 97 /\ c <= 122 THEN c - 97 + 26
    ELSE IF c >= 48 /\ c <= 57 THEN c - 48 + 52
    ELSE IF c = 43 THEN 62
    ELSE IF c = 47 THEN 63 ELSE -1

RECURSIVE B64Encode(_)
B64Encode(b) ==
    IF b = <<>> THEN <<>>
    ELSE IF Len(b) = 1 THEN
        <<B64Char(b[1] \div 4), B64Char((b[1] % 4) * 16)>> \o PAD \o PAD
    ELSE IF Len(b) = 2 THEN
        <<B64Char(b[1] \div 4),
          B64Char((b[1] % 4) * 16 + b[2] \div 16),
          B64Char((b[2] % 16) * 4)>> \o PAD
    ELSE
        <<B64Char(b[1] \div 4),
          B64Char((b[1] % 4) * 16 + b[2] \div 16),
          B64Char((b[2] % 16) * 4 + b[3] \div 64),
          B64Char(b[3] % 64)>> \o B64Encode(SubSeq(b, 4, Len(b)))

RECURSIVE B64DecodeQuads(_)
\* the bytes of a sequence of complete, unpadded quads
B64DecodeQuads(c) ==
    IF c = <<>> THEN <<>>
    ELSE LET v1 == B64Val(c[1])
             v2 == B64Val(c[2])
             v3 == B64Val(c[3])
             v4 == B64Val(c[4])
         IN  <<v1 * 4 + v2 \div 16, (v2 % 16) * 16 + v3 \div 4, (v3 % 4) * 64 + v4>>
             \o B64DecodeQuads(SubSeq(c, 5, Len(c)))

\* STANDARD.decode: canonical padding is required and the unused trailing
\* bits of the last symbol must be zero; None on any violation.
B64Decode(c) ==
    LET n == Len(c)
        npad == IF n >= 2 /\ <<c[n]>> = PAD /\ <<c[n - 1]>> = PAD THEN 2
                ELSE IF n >= 1 /\ <<c[n]>> = PAD THEN 1 ELSE 0
        body == SubSeq(c, 1, n - npad)
        full == SubSeq(c, 1, n - (n % 4) - (IF npad > 0 THEN 4 ELSE 0))
        rest == SubSeq(c, Len(full) + 1, n - npad)
    IN  IF n % 4 # 0 \/ \E i \in 1..Len(body) : B64Val(body[i]) < 0 THEN None
        ELSE IF npad = 0 THEN Some(B64DecodeQuads(body))
        ELSE IF npad = 1 THEN
            IF B64Val(rest[3]) % 4 # 0 THEN None
            ELSE Some(B64DecodeQuads(full)
                      \o <<B64Val(rest[1]) * 4 + B64Val(rest[2]) \div 16,
                           (B64Val(rest[2]) % 16) * 16 + B64Val(rest[3]) \div 4>>)
        ELSE
            IF B64Val(rest[2]) % 16 # 0 THEN None
            ELSE Some(B64DecodeQuads(full)
                      \o <<B64Val(rest[1]) * 4 + B64Val(rest[2]) \div 16>>)

RECURSIVE Utf8Ok(_)
\* String::from_utf8 succeeds: well-formed UTF-8 (no overlong forms, no
\* surrogates, nothing above U+10FFFF)
Utf8Ok(b) ==
    LET Cont(i) == i <= Len(b) /\ b[i] >= 128 /\ b[i] <= 191
    IN  IF b = <<>> THEN TRUE
        ELSE IF b[1] < 128 THEN Utf8Ok(Tail(b))
        ELSE IF b[1] >= 194 /\ b[1] <= 223 THEN
            Cont(2) /\ Utf8Ok(SubSeq(b, 3, Len(b)))
        ELSE IF b[1] >= 224 /\ b[1] <= 239 THEN
            /\ Cont(2) /\ Cont(3)
            /\ (b[1] = 224 => b[2] >= 160)
            /\ (b[1] = 237 => b[2] <= 159)
            /\ Utf8Ok(SubSeq(b, 4, Len(b)))
        ELSE IF b[1] >= 240 /\ b[1] <= 244 THEN
            /\ Cont(2) /\ Cont(3) /\ Cont(4)
            /\ (b[1] = 240 => b[2] >= 144)
            /\ (b[1] = 244 => b[2] <= 143)
            /\ Utf8Ok(SubSeq(b, 5, Len(b)))
        ELSE FALSE


(***************************************************************************)
(* crypto.rs: AuthToken                                                    *)
(***************************************************************************)
\* HMAC-SHA256 is a library primitive.  It is modelled as an ideal keyed
\* function: the tag determines the key and the message (keys hold no zero
\* byte), so two tags agree only when key and message agree.
HmacSha256(key, msg) == key \o <<0>> \o msg

\* AuthToken::generate
generate(secret, username, timestamp) ==
    LET message == AuthPrefix \o username \o COLON \o DecStr(timestamp)
        hmac_b64 == B64Encode(HmacSha256(secret, message))
        token == username \o COLON \o DecStr(timestamp) \o COLON \o hmac_b64
    IN  B64Encode(token)

\* u64::saturating_sub
SaturatingSub(a, b) == IF a >= b THEN a - b ELSE 0

StaleMutGe(t, timestamp, max_age_secs) == SaturatingSub(t, timestamp) >= max_age_secs

\* the freshness test of verify and verify_multi_user, at clock reading t
Stale(t, timestamp, max_age_secs) == SaturatingSub(t, timestamp) > max_age_secs

TokenEqMutLen(expected, token_b64) == Len(expected) = Len(token_b64)

\* expected.len() == token_b64.len() && zip(..).all(|(a, b)| a == b)
TokenEq(expected, token_b64) ==
    /\ Len(expected) = Len(token_b64)
    /\ \A i \in 1..Len(expected) : expected[i] = token_b64[i]

Rejected == [valid |-> FALSE, username |-> None]

\* the decoding steps shared by verify and verify_multi_user: base64, UTF-8,
\* split on ':' into exactly three parts, the timestamp as u64.  None on any
\* failure, Some([username, timestamp]) otherwise.
DecodeToken(token_b64) ==
    LET d == B64Decode(token_b64)
    IN  IF d = None THEN None
        ELSE IF ~Utf8Ok(d[1]) THEN None
        ELSE LET parts == Split(d[1], COLON)
             IN  IF Len(parts) # 3 THEN None
                 ELSE LET ts == ParseU64(parts[2])
                      IN  IF ts = None THEN None
                          ELSE Some([username |-> parts[1], timestamp |-> ts[1]])

\* AuthToken::verify, at clock reading t
verify(token_b64, secret, max_age_secs, t) ==
    LET p == DecodeToken(token_b64)
    IN  IF p = None THEN Rejected
        ELSE IF Stale(t, p[1].timestamp, max_age_secs) THEN Rejected
        ELSE IF TokenEq(generate(secret, p[1].username, p[1].timestamp), token_b64)
             THEN [valid |-> TRUE, username |-> Some(p[1].username)]
             ELSE Rejected

\* AuthToken::verify_multi_user, at clock reading t; users maps a set of
\* usernames to secrets
verify_multi_user(token_b64, users, max_age_secs, t) ==
    LET p == DecodeToken(token_b64)
    IN  IF p = None THEN Rejected
        ELSE IF Stale(t, p[1].timestamp, max_age_secs) THEN Rejected
        ELSE IF p[1].username \notin DOMAIN users THEN Rejected
        ELSE IF TokenEq(generate(users[p[1].username], p[1].username, p[1].timestamp),
                        token_b64)
             THEN [valid |-> TRUE, username |-> Some(p[1].username)]
             ELSE Rejected

(***************************************************************************)
(* Inputs of the token harness                                             *)
(***************************************************************************)
\* the clock reading at which the behaviours start
Now0 == 400
\* a short max_age, beside 0 and the server's 300 s
SmallAge == 2
\* max_age_secs as the server passes it
MaxAgeSecs == 300

\* "k", "s3"
Secrets == {<<107>>, <<115, 51>>}
\* "al", "b", "a:b"
Names == {<<97, 108>>, <<98>>, <<97, 58, 98>>}
MaxAges == {0, SmallAge, MaxAgeSecs}
\* timestamps around both ends of the accepted window
Stamps(max_age) == {Now0 - max_age - 1, Now0 - max_age, Now0, Now0 + 1}
\* bytes written over one byte of a token: 'A', '=', 'B'
ModBytes == {65, 61, 66}

HasColon(s) == \E i \in 1..Len(s) : <<s[i]>> = COLON

IdleTk == [pc |-> "off"]
IdleSession == [username |-> None, state |-> "Initial", binary_mode |-> FALSE]
IdleLast ==
    [phase |-> "none", cmd |-> "none", verb |-> "", mech |-> "none", tok |-> "none",
     pre |-> IdleSession, codes |-> <<>>, out |-> <<>>, ctl |-> "none", at |-> 0]
IdleCpc == [at |-> "off"]
IdleHist ==
    [tls |-> FALSE, sent235 |-> FALSE, sent299 |-> FALSE, closedBy |-> "none",
     failed535 |-> {}, authed |-> <<>>]
IdleFc == [pc |-> "off"]
IdlePx == [pc |-> "off"]
IdleCl == [pc |-> "off"]
IdleUt == [pc |-> "off"]
IdleSk == [pc |-> "off"]

TkInit ==
    /\ tk \in {[pc |-> "start", secret |-> s, user |-> u, ts |-> t, max_age |-> m,
                token |-> <<>>, how |-> "none", res |-> Rejected, res1 |-> Rejected] :
               s \in Secrets, u \in Names,
               t \in UNION {Stamps(a) : a \in MaxAges}, m \in MaxAges}
    /\ session = IdleSession /\ spc = "off" /\ addr = "none" /\ now = Now0
    /\ last = IdleLast /\ hist = IdleHist
    /\ c2s = <<>> /\ s2c = <<>> /\ cpc = IdleCpc /\ cwrote = <<>>
    /\ fc = IdleFc /\ px = IdlePx /\ cl = IdleCl /\ ut = IdleUt
    /\ sk = IdleSk

TkRest == UNCHANGED <<session, spc, addr, now, last, hist, c2s, s2c, cpc, cwrote, fc, px, cl, ut, sk>>

\* the holder of the secret mints a token (AuthToken::generate)
TkPresentGenerated ==
    /\ tk.pc = "start"
    /\ tk' = [tk EXCEPT !.pc = "presented", !.how = "generated",
                        !.token = generate(tk.secret, tk.user, tk.ts)]
    /\ TkRest

\* a token minted with a secret other than the one the verifier holds
TkPresentWrongSecret ==
    /\ tk.pc = "start"
    /\ \E s \in Secrets \ {tk.secret} :
         tk' = [tk EXCEPT !.pc = "presented", !.how = "wrong_secret",
                          !.token = generate(s, tk.user, tk.ts)]
    /\ TkRest

\* a minted token with one byte overwritten
TkPresentModified ==
    /\ tk.pc = "start"
    /\ LET t == generate(tk.secret, tk.user, tk.ts)
       IN  \E i \in 1..Len(t) : \E b \in ModBytes \ {t[i]} :
             tk' = [tk EXCEPT !.pc = "presented", !.how = "modified",
                              !.token = [t EXCEPT ![i] = b]]
    /\ TkRest

\* a minted token re-encoded with another username in its username field
TkPresentRenamed ==
    /\ tk.pc = "start"
    /\ \E u \in Names \ {tk.user} :
         LET message == AuthPrefix \o tk.user \o COLON \o DecStr(tk.ts)
             hmac_b64 == B64Encode(HmacSha256(tk.secret, message))
         IN  tk' = [tk EXCEPT !.pc = "presented", !.how = "renamed",
                       !.token = B64Encode(u \o COLON \o DecStr(tk.ts) \o COLON \o hmac_b64)]
    /\ TkRest

\* the verifier, holding tk.secret for every name, checks the presented token
TkVerify ==
    /\ tk.pc = "presented"
    /\ tk' = [tk EXCEPT !.pc = "verified",
                 !.res = verify_multi_user(tk.token, [u \in Names |-> tk.secret],
                                           tk.max_age, now),
                 !.res1 = verify(tk.token, tk.secret, tk.max_age, now)]
    /\ TkRest

TkNext ==
    \/ TkPresentGenerated
    \/ TkPresentWrongSecret
    \/ TkPresentModified
    \/ TkPresentRenamed
    \/ TkVerify

SpecToken == TkInit /\ [][TkNext]_vars

(***************************************************************************)
(* config.rs: the allowlist; std::net and ipnet parsing (IPv4)             *)
(***************************************************************************)
DOT == <<46>>
SLASH == <<47>>

\* a decimal field of an address: digits only, no leading zero, at most max
ParseField(s, maxlen, max) ==
    IF /\ s # <<>> /\ Len(s) <= maxlen
       /\ \A i \in 1..Len(s) : IsDigit(s[i])
       /\ (Len(s) > 1 => s[1] # 48)
       /\ DigitsVal(s, 0) <= max
    THEN Some(DigitsVal(s, 0)) ELSE None

\* str::parse::<Ipv4Addr>(): four dotted decimal octets
ParseIpv4(s) ==
    LET f == Split(s, DOT)
    IN  IF Len(f) = 4 /\ \A i \in 1..4 : ParseField(f[i], 3, 255) # None
        THEN Some([i \in 1..4 |-> ParseField(f[i], 3, 255)[1]])
        ELSE None

\* str::parse::<ipnet::IpNet>(): address '/' prefix length
ParseIpNet(s) ==
    LET f == Split(s, SLASH)
    IN  IF Len(f) = 2 /\ ParseIpv4(f[1]) # None
                      /\ ParseField(f[2], 2, 32) # None
        THEN Some([addr |-> ParseIpv4(f[1])[1], prefix |-> ParseField(f[2], 2, 32)[1]])
        ELSE None

RECURSIVE Pow2(_)
Pow2(n) == IF n = 0 THEN 1 ELSE 2 * Pow2(n - 1)

\* IpNet::contains: the leading prefix bits of the address equal the network's
NetContains(net, ip) ==
    \A k \in 1..4 :
        LET upto == net.prefix - 8 * (k - 1)
            bits == IF upto >= 8 THEN 8 ELSE IF upto <= 0 THEN 0 ELSE upto
        IN  net.addr[k] \div Pow2(8 - bits) = ip[k] \div Pow2(8 - bits)

\* IpAddr::to_string of an IPv4 address
IpToString(ip) ==
    DecStr(ip[1]) \o DOT \o DecStr(ip[2]) \o DOT \o DecStr(ip[3]) \o DOT \o DecStr(ip[4])

\* UsersConfig::is_ip_whitelisted(username, ip) over the table users
is_ip_whitelisted(users, username, ip) ==
    IF username \notin DOMAIN users THEN FALSE
    ELSE LET w == users[username].whitelist
         IN  \/ w = <<>>
             \/ \E i \in 1..Len(w) :
                  \/ w[i] = ip
                  \/ /\ ParseIpNet(w[i]) # None
                     /\ ParseIpv4(ip) # None
                     /\ NetContains(ParseIpNet(w[i])[1], ParseIpv4(ip)[1])

(***************************************************************************)
(* proto/smtp.rs                                                           *)
(***************************************************************************)
\* str::to_uppercase on the words of the model
ToUpper(w) ==
    CASE w = "ehlo" -> "EHLO"
      [] w = "starttls" -> "STARTTLS"
      [] w = "auth" -> "AUTH"
      [] w = "binary" -> "BINARY"
      [] w = "plain" -> "PLAIN"
      [] w = "quit" -> "QUIT"
      [] OTHER -> w

\* Command::parse: the verb, upper-cased, names the command
Command_parse(verb) ==
    LET cmd == ToUpper(verb)
    IN  CASE cmd = "EHLO" -> "Ehlo"
          [] cmd = "HELO" -> "Helo"
          [] cmd = "STARTTLS" -> "StartTls"
          [] cmd = "AUTH" -> "Auth"
          [] cmd = "MAIL" -> "Mail"
          [] cmd = "RCPT" -> "Rcpt"
          [] cmd = "DATA" -> "Data"
          [] cmd = "QUIT" -> "Quit"
          [] cmd = "BINARY" -> "Binary"
          [] OTHER -> "Unknown"

\* parse_line: None for an empty line, else the command and its argument
\* (the argument as its whitespace-separated words)
parse_line(line) ==
    IF line.verb = "" THEN None ELSE Some([cmd |-> Command_parse(line.verb), arg |-> line.args])

\* Response::new: one line "<code> <message>\r\n"
Response_new(code, message) == <<[code |-> code, sep |-> " ", text |-> message]>>

\* Response::multi_line: "<code>-" on every line but the last
Response_multi_line(code, lines) ==
    IF lines = <<>> THEN Response_new(code, "")
    ELSE IF Len(lines) = 1 THEN Response_new(code, lines[1])
    ELSE [i \in 1..Len(lines) |->
            [code |-> code, sep |-> IF i < Len(lines) THEN "-" ELSE " ", text |-> lines[i]]]

Hostname == "mail.example.com"

Response_greeting == Response_new(220, "mail.example.com ESMTP Postfix (Ubuntu)")
Response_ehloMutAlways(starttls) ==
    Response_multi_line(250, <<Hostname, "STARTTLS", "AUTH PLAIN LOGIN", "8BITMIME">>)

\* Response::ehlo (smtp.rs 118-126)
Response_ehlo(starttls) ==
    Response_multi_line(250, <<Hostname>> \o (IF starttls THEN <<"STARTTLS">> ELSE <<>>)
                             \o <<"AUTH PLAIN LOGIN", "8BITMIME">>)
Response_starttls == Response_new(220, "2.0.0 Ready to start TLS")
Response_auth_success == Response_new(235, "2.7.0 Authentication successful")
Response_auth_failed == Response_new(535, "5.7.8 Authentication failed")
Response_binary_mode == Response_new(299, "Binary mode activated")
Response_goodbye == Response_new(221, "Bye")
Response_command_unrecognizedMutOk == Response_new(250, "2.0.0 Ok")
Response_command_unrecognized == Response_new(502, "Command not recognized")
Response_bad_sequence == Response_new(503, "Bad sequence of commands")

(***************************************************************************)
(* server.rs: the session worker                                           *)
(***************************************************************************)
\* "k", "s3"
SecretK == <<107>>
SecretS3 == <<115, 51>>
\* "al", "b", "c", "zz"
NameAl == <<97, 108>>
NameB == <<98>>
NameC == <<99>>
NameZz == <<122, 122>>
\* "10.0.0.0/8", "10.1.2.3"
Net10 == <<49, 48, 46, 48, 46, 48, 46, 48, 47, 56>>
Lit10_1_2_3 == <<49, 48, 46, 49, 46, 50, 46, 51>>

\* UsersConfig.users: al may connect from anywhere, b from 10.0.0.0/8,
\* c from the literal address 10.1.2.3
UserTable ==
    (NameAl :> [secret |-> SecretK, whitelist |-> <<>>])
    @@ (NameB :> [secret |-> SecretS3, whitelist |-> <<Net10>>])
    @@ (NameC :> [secret |-> SecretK, whitelist |-> <<Lit10_1_2_3>>])

\* the source addresses of the model: 10.1.2.3 and 203.0.113.5
Addrs == {<<10, 1, 2, 3>>, <<203, 0, 113, 5>>}

WhitelistedMutAll(users, username, ip) == TRUE

\* the allowlist test of the AUTH handlers (server.rs 343-351)
Whitelisted(users, username, ip) ==
    IF username \in DOMAIN users
    THEN LET w == users[username].whitelist
         IN  IF w = <<>> THEN TRUE
             ELSE \E i \in 1..Len(w) : w[i] = IpToString(ip)
    ELSE TRUE

Result(sess, out, ctl) == [session |-> sess, out |-> out, ctl |-> ctl]

\* the allowlist half of the Auth arm (server.rs 339-357) on the result v
\* of the verification: Some(username) when the address passes
AuthAllow(v, whitelist, ip) ==
    IF v.valid
    THEN IF ~Whitelisted([u \in DOMAIN whitelist |-> [whitelist |-> whitelist[u]]],
                         v.username[1], ip)
         THEN None
         ELSE v.username
    ELSE None

\* the decision of the Auth arm on a token (server.rs 203-227 and 333-357),
\* taken on the two maps copied from the user table: Some(username) when
\* the token verifies and the address passes the user's allowlist
AuthDecide(user_secrets, whitelist, token, ip, t) ==
    AuthAllow(verify_multi_user(token, user_secrets, MaxAgeSecs, t), whitelist, ip)

AuthReplyMutClose(sess, a) ==
    IF a # None
    THEN Result([sess EXCEPT !.username = a, !.state = "Authenticated"],
                Response_auth_success, "continue")
    ELSE Result(sess, Response_auth_failed, "end")

AuthReplyMutClear(sess, a) ==
    IF a # None
    THEN Result([sess EXCEPT !.username = a, !.state = "Authenticated"],
                Response_auth_success, "continue")
    ELSE Result([sess EXCEPT !.username = <<>>], Response_auth_failed, "continue")

AuthReplyMutDemote(sess, a) ==
    IF a # None
    THEN Result([sess EXCEPT !.username = a, !.state = "Authenticated"],
                Response_auth_success, "continue")
    ELSE Result([sess EXCEPT !.username = <<>>, !.state = "Greeted"],
                Response_auth_failed, "continue")

\* the end of the Auth arm (server.rs 229-236 and 359-366): the session
\* after it and the reply
AuthReply(sess, a) ==
    IF a # None
    THEN Result([sess EXCEPT !.username = a, !.state = "Authenticated"],
                Response_auth_success, "continue")
    ELSE Result(sess, Response_auth_failed, "continue")

\* the body of the Auth arm (server.rs 178-236 and 307-366): the session
\* after it and the reply
HandleAuth(sess, arg, ip, t) ==
    IF Len(arg) < 2 \/ ToUpper(arg[1]) # "PLAIN"
    THEN Result(sess, Response_auth_failed, "continue")
    ELSE AuthReply(sess, AuthDecide([u \in DOMAIN UserTable |-> UserTable[u].secret],
                                    [u \in DOMAIN UserTable |-> UserTable[u].whitelist],
                                    arg[2], ip, t))

BinaryAllowedMutAlways(sess) == TRUE

\* the guard of the Binary arms (server.rs 243 and 370)
BinaryAllowed(sess) == sess.state = "Authenticated"

\* the guard of the Auth arm of handle_client (server.rs 176)
PlainAuthAllowed(sess) == sess.state = "Greeted"

\* one iteration of the command loop of handle_client (server.rs 130-266)
\* on a parsed line: the session after it, the reply written, and how the
\* loop goes on ("continue", "accept": upgrade to TLS, "end": break)
PlainStep(sess, line, ip, t) ==
    LET p == parse_line(line)
        cmd == p[1].cmd
    IN  IF p = None THEN Result(sess, <<>>, "continue")
        ELSE IF cmd \in {"Ehlo", "Helo"} THEN
            IF sess.state \in {"Initial", "Greeted"}
            THEN Result([sess EXCEPT !.state = "Greeted"],
                        Response_ehlo(sess.state \notin {"TlsStarted", "Authenticated"}),
                        "continue")
            ELSE Result(sess, Response_bad_sequence, "continue")
        ELSE IF cmd = "StartTls" THEN
            IF sess.state = "Greeted"
            THEN Result(sess, Response_starttls, "accept")
            ELSE Result(sess, Response_bad_sequence, "continue")
        ELSE IF cmd = "Auth" THEN
            IF PlainAuthAllowed(sess)
            THEN HandleAuth(sess, p[1].arg, ip, t)
            ELSE Result(sess, Response_bad_sequence, "continue")
        ELSE IF cmd = "Binary" THEN
            IF BinaryAllowed(sess)
            THEN Result([sess EXCEPT !.state = "BinaryMode", !.binary_mode = TRUE],
                        Response_binary_mode, "end")
            ELSE Result(sess, Response_auth_failed, "continue")
        ELSE IF cmd = "Quit" THEN Result(sess, Response_goodbye, "end")
        ELSE Result(sess, Response_command_unrecognized, "continue")

\* one iteration of the command loop of handle_tls_session (server.rs
\* 282-392); "binary": handle_binary_mode_tls is entered
TlsStep(sess, line, ip, t) ==
    LET p == parse_line(line)
        cmd == p[1].cmd
    IN  IF p = None THEN Result(sess, <<>>, "continue")
        ELSE IF cmd \in {"Ehlo", "Helo"} THEN Result(sess, Response_ehlo(FALSE), "continue")
        ELSE IF cmd = "Auth" THEN HandleAuth(sess, p[1].arg, ip, t)
        ELSE IF cmd = "Binary" THEN
            IF BinaryAllowed(sess)
            THEN Result([sess EXCEPT !.state = "BinaryMode", !.binary_mode = TRUE],
                        Response_binary_mode, "binary")
            ELSE Result(sess, Response_auth_failed, "continue")
        ELSE IF cmd = "Quit" THEN Result(sess, Response_goodbye, "end")
        ELSE Result(sess, Response_command_unrecognized, "continue")

(***************************************************************************)
(* The server worker facing an arbitrary peer                              *)
(***************************************************************************)
\* how far the clock advances during a connection
MaxTick == 1

\* the tokens a peer presents, by name
TokenTable ==
    [al_fresh |-> generate(SecretK, NameAl, Now0),
     al_edge |-> generate(SecretK, NameAl, Now0 - MaxAgeSecs),
     al_stale |-> generate(SecretK, NameAl, Now0 - MaxAgeSecs - 1),
     b_fresh |-> generate(SecretS3, NameB, Now0),
     c_fresh |-> generate(SecretK, NameC, Now0),
     al_wrongkey |-> generate(SecretS3, NameAl, Now0),
     zz_unknown |-> generate(SecretK, NameZz, Now0),
     not_base64 |-> <<33, 33>>,
     two_parts |-> B64Encode(NameAl \o COLON \o DecStr(Now0))]

\* the command lines a peer sends: the verb, the words after it, and the
\* name of the token among them
PeerLines ==
    {[verb |-> v, args |-> <<>>, mech |-> "none", tok |-> "none"] :
        v \in {"EHLO", "ehlo", "HELO", "STARTTLS", "BINARY", "QUIT", "MAIL", "RCPT", "DATA",
              "NOOP", "", "AUTH"}}
    \cup {[verb |-> "AUTH", args |-> <<m>>, mech |-> m, tok |-> "none"] : m \in {"PLAIN"}}
    \cup {[verb |-> "AUTH", args |-> <<m, TokenTable[k]>>, mech |-> m, tok |-> k] :
            m \in {"PLAIN"}, k \in DOMAIN TokenTable}
    \cup {[verb |-> "AUTH", args |-> <<m, TokenTable.al_fresh>>, mech |-> m, tok |-> "al_fresh"] :
            m \in {"plain", "LOGIN"}}

Codes(out) == [i \in 1..Len(out) |-> out[i].code]

\* handle_binary_mode_tls (server.rs 398-414): it reads nothing from the
\* stream it is given, drains the channel table and returns Ok; the stream,
\* moved into it, is dropped on return
handle_binary_mode_tls(sess) ==
    [read |-> <<>>, channels |-> {}, result |-> "Ok", transport |-> "dropped"]

\* the worker's bookkeeping after one loop iteration with result r
SrvApply(r, phase, pl) ==
    /\ session' = r.session
    /\ spc' = CASE r.ctl = "continue" -> phase
                [] r.ctl = "accept" -> "accept"
                [] r.ctl = "binary" ->
                     IF handle_binary_mode_tls(r.session).transport = "dropped"
                     THEN "closed" ELSE "binary"
                [] OTHER -> "closed"
    /\ last' = [phase |-> phase, cmd |-> IF pl.verb = "" THEN "none" ELSE Command_parse(pl.verb),
                verb |-> pl.verb, mech |-> pl.mech, tok |-> pl.tok, pre |-> session,
                codes |-> Codes(r.out), out |-> r.out, ctl |-> r.ctl, at |-> now]
    /\ hist' = [hist EXCEPT !.sent235 = @ \/ (\E i \in 1..Len(r.out) : r.out[i].code = 235),
                            !.sent299 = @ \/ (\E i \in 1..Len(r.out) : r.out[i].code = 299),
                            !.closedBy = IF r.ctl \in {"continue", "accept"} THEN @ ELSE "server",
                            !.failed535 =
                                IF pl.verb # "" /\ Command_parse(pl.verb) = "Auth"
                                   /\ Codes(r.out) = <<535>>
                                THEN @ \cup {phase} ELSE @,
                            !.authed =
                                IF \E i \in 1..Len(r.out) : r.out[i].code = 235
                                THEN <<DecodeToken(pl.args[2])[1].username>> ELSE @]

SrvInit ==
    /\ tk = IdleTk
    /\ session = IdleSession /\ spc = "init" /\ addr \in Addrs /\ now = Now0
    /\ last = IdleLast /\ hist = IdleHist
    /\ c2s = <<>> /\ s2c = <<>> /\ cpc = IdleCpc /\ cwrote = <<>>
    /\ fc = IdleFc /\ px = IdlePx /\ cl = IdleCl /\ ut = IdleUt
    /\ sk = IdleSk

\* handle_client up to its loop: the greeting (server.rs 115-128)
SrvGreet ==
    /\ spc = "init"
    /\ session' = [session EXCEPT !.state = "Greeted"]
    /\ spc' = "plain"
    /\ last' = [IdleLast EXCEPT !.phase = "plain", !.cmd = "greet", !.pre = session,
                                !.codes = Codes(Response_greeting),
                                !.out = Response_greeting, !.at = now]
    /\ UNCHANGED <<tk, addr, now, hist, c2s, s2c, cpc, cwrote, fc, px, cl, ut, sk>>

\* a line arrives on the plain TCP stream and handle_client handles it
SrvPlainLine ==
    /\ spc = "plain"
    /\ \E pl \in PeerLines :
         SrvApply(PlainStep(session, [verb |-> pl.verb, args |-> pl.args], addr, now),
                  "plain", pl)
    /\ UNCHANGED <<tk, addr, now, c2s, s2c, cpc, cwrote, fc, px, cl, ut, sk>>

\* tls_acceptor.accept completes and handle_tls_session starts (server.rs
\* 165-168, 279), or the handshake fails and the worker returns the error
SrvTlsAccept ==
    /\ spc = "accept"
    /\ \E ok \in BOOLEAN :
         IF ok
         THEN /\ session' = [session EXCEPT !.state = "TlsStarted"]
              /\ spc' = "tls"
              /\ hist' = [hist EXCEPT !.tls = TRUE]
         ELSE /\ spc' = "closed"
              /\ hist' = [hist EXCEPT !.closedBy = "error"]
              /\ UNCHANGED session
    /\ UNCHANGED <<tk, addr, now, last, c2s, s2c, cpc, cwrote, fc, px, cl, ut, sk>>

\* a line arrives inside the TLS channel and handle_tls_session handles it
SrvTlsLine ==
    /\ spc = "tls"
    /\ \E pl \in PeerLines :
         SrvApply(TlsStep(session, [verb |-> pl.verb, args |-> pl.args], addr, now),
                  "tls", pl)
    /\ UNCHANGED <<tk, addr, now, c2s, s2c, cpc, cwrote, fc, px, cl, ut, sk>>

\* read_line returns None: the peer closed the connection
SrvPeerClosed ==
    /\ spc \in {"plain", "tls"}
    /\ spc' = "closed"
    /\ hist' = [hist EXCEPT !.closedBy = "peer"]
    /\ UNCHANGED <<tk, session, addr, now, last, c2s, s2c, cpc, cwrote, fc, px, cl, ut, sk>>

\* a second passes
Tick ==
    /\ now < Now0 + MaxTick
    /\ now' = now + 1
    /\ UNCHANGED <<tk, session, spc, addr, last, hist, c2s, s2c, cpc, cwrote, fc, px, cl, ut, sk>>

SrvNext ==
    \/ SrvGreet
    \/ SrvPlainLine
    \/ SrvTlsAccept
    \/ SrvTlsLine
    \/ SrvPeerClosed
    \/ Tick

SpecServer == SrvInit /\ [][SrvNext]_vars

\* the worker's own steps are taken and time passes; nothing obliges the
\* peer to send a line, to finish the TLS handshake or to close
SpecServerLive == SpecServer /\ WF_vars(SrvGreet) /\ WF_vars(Tick)

(***************************************************************************)
(* client.rs: smtp_handshake, against the server worker or any remote      *)
(***************************************************************************)
\* how many reply lines an arbitrary remote keeps in flight
MaxInFlight == 1

\* ClientConfig.username and .secret: users of the table with their secrets
ClientConfigs ==
    {[username |-> u, secret |-> UserTable[u].secret] : u \in DOMAIN UserTable}

Step(pc, write) == [pc |-> pc, write |-> write]

Cmd(verb, args) == <<[verb |-> verb, args |-> args]>>

\* line.starts_with("<code>"), and with "<code> " or "<code>-"
StartsWithCode(line, code) == line.code = code
StartsWithCodeSep(line, code, sep) == line.code = code /\ line.sep = sep

smtp_handshakeMutNoCheck(pc, line, cfg, t) ==
    CASE pc = "greeting" -> Step("ehlo1", Cmd("EHLO", <<>>))
      [] pc = "ehlo1" -> Step("starttls", Cmd("STARTTLS", <<>>))
      [] pc = "starttls" -> Step("ehlo2", Cmd("EHLO", <<>>))
      [] pc = "ehlo2" ->
           Step("auth", Cmd("AUTH", <<"PLAIN", generate(cfg.secret, cfg.username, t)>>))
      [] pc = "auth" -> Step("binary", Cmd("BINARY", <<>>))
      [] pc = "binary" -> Step("ok", <<>>)

\* smtp_handshake from one read_smtp_line to the next (client.rs 119-195):
\* at position pc the line read is `line` (None: the server closed the
\* connection or the read failed); the result is the next position and the
\* command written, at clock reading t
smtp_handshake(pc, line, cfg, t) ==
    IF line = None THEN Step("err", <<>>)
    ELSE LET l == line[1] IN
      CASE pc = "greeting" ->
             IF StartsWithCode(l, 220) THEN Step("ehlo1", Cmd("EHLO", <<>>))
             ELSE Step("err", <<>>)
        [] pc = "ehlo1" ->
             IF StartsWithCodeSep(l, 250, " ") THEN Step("starttls", Cmd("STARTTLS", <<>>))
             ELSE IF ~StartsWithCodeSep(l, 250, "-") THEN Step("err", <<>>)
             ELSE Step("ehlo1", <<>>)
        [] pc = "starttls" ->
             IF StartsWithCode(l, 220) THEN Step("ehlo2", Cmd("EHLO", <<>>))
             ELSE Step("err", <<>>)
        [] pc = "ehlo2" ->
             IF StartsWithCodeSep(l, 250, " ")
             THEN Step("auth", Cmd("AUTH", <<"PLAIN", generate(cfg.secret, cfg.username, t)>>))
             ELSE IF ~StartsWithCodeSep(l, 250, "-") THEN Step("err", <<>>)
             ELSE Step("ehlo2", <<>>)
        [] pc = "auth" ->
             IF StartsWithCode(l, 235) THEN Step("binary", Cmd("BINARY", <<>>))
             ELSE Step("err", <<>>)
        [] pc = "binary" ->
             IF StartsWithCode(l, 299) THEN Step("ok", <<>>)
             ELSE Step("err", <<>>)

\* whether the stream the client writes to at position pc is a TLS stream:
\* smtp_handshake keeps the TcpStream it was given throughout (client.rs
\* 154-158: the upgrade is not performed)
ClientStreamIsTls(pc) == FALSE

\* the reply lines an arbitrary remote may send
AnyReplies ==
    {[code |-> c, sep |-> " ", text |-> ""] : c \in {220, 250, 235, 299, 535}}
    \cup {[code |-> 250, sep |-> "-", text |-> ""]}

HsInit ==
    /\ tk = IdleTk
    /\ session = IdleSession /\ addr \in Addrs /\ now = Now0
    /\ spc \in {"init", "any"}
    /\ last = IdleLast /\ hist = IdleHist
    /\ c2s = <<>> /\ s2c = <<>> /\ cwrote = <<>>
    /\ fc = IdleFc /\ px = IdlePx /\ cl = IdleCl /\ ut = IdleUt
    /\ sk = IdleSk
    /\ cpc \in {[at |-> "greeting", cfg |-> c, from |-> "none", read |-> None,
                  peer |-> IF spc = "init" THEN "server" ELSE "any"] : c \in ClientConfigs}

\* the client reads its next line, or the end of the stream, and goes on
CliStep ==
    /\ cpc.at \notin {"ok", "err"}
    /\ s2c # <<>> \/ spc = "closed"
    /\ LET line == IF s2c # <<>> THEN Some(Head(s2c)) ELSE None
           r == smtp_handshake(cpc.at, line, cpc.cfg, now)
           sent == [i \in 1..Len(r.write) |->
                       [tls |-> ClientStreamIsTls(cpc.at), verb |-> r.write[i].verb,
                        args |-> r.write[i].args]]
       IN  /\ cpc' = [cpc EXCEPT !.at = r.pc, !.from = cpc.at, !.read = line]
           /\ s2c' = IF s2c # <<>> THEN Tail(s2c) ELSE s2c
           /\ c2s' = c2s \o sent
           /\ cwrote' = cwrote \o [i \in 1..Len(sent) |->
                                     [tls |-> sent[i].tls, verb |-> sent[i].verb,
                                      mech |-> IF sent[i].args = <<>> THEN ""
                                               ELSE sent[i].args[1],
                                      at |-> cpc.at, after |-> line]]
    /\ UNCHANGED <<tk, session, spc, addr, now, last, hist, fc, px, cl, ut, sk>>

WirePl(item) ==
    [verb |-> item.verb, args |-> item.args,
     mech |-> IF item.args # <<>> THEN item.args[1] ELSE "none", tok |-> "wire"]

\* one iteration of the command loop the worker is in
LoopStep(phase, sess, item, ip, t) ==
    IF phase = "plain"
    THEN PlainStep(sess, [verb |-> item.verb, args |-> item.args], ip, t)
    ELSE TlsStep(sess, [verb |-> item.verb, args |-> item.args], ip, t)

\* handle_client up to its loop: the greeting, on the wire
HsGreet ==
    /\ session' = [session EXCEPT !.state = "Greeted"]
    /\ spc' = "plain"
    /\ last' = [IdleLast EXCEPT !.phase = "plain", !.cmd = "greet", !.pre = session,
                                !.codes = Codes(Response_greeting),
                                !.out = Response_greeting, !.at = now]
    /\ s2c' = s2c \o Response_greeting
    /\ UNCHANGED <<hist, c2s>>

\* read_line returns None once the client has dropped the stream
HsEof ==
    /\ cpc.at \in {"ok", "err"}
    /\ spc' = "closed"
    /\ hist' = [hist EXCEPT !.closedBy = "peer"]
    /\ UNCHANGED <<session, last, c2s, s2c>>

\* tls_acceptor.accept reads the client's next bytes: a ClientHello starts
\* the TLS session, anything else fails the handshake and ends the worker
HsAccept(item) ==
    /\ c2s' = Tail(c2s)
    /\ IF item.tls /\ item.verb = "ClientHello"
       THEN /\ session' = [session EXCEPT !.state = "TlsStarted"]
            /\ spc' = "tls"
            /\ hist' = [hist EXCEPT !.tls = TRUE]
            /\ UNCHANGED <<last, s2c>>
       ELSE /\ spc' = "closed"
            /\ hist' = [hist EXCEPT !.closedBy = "error"]
            /\ UNCHANGED <<session, last, s2c>>

\* read_line yields the client's next line and the loop handles it; bytes
\* that do not belong to the worker's transport fail the read
HsLine(item) ==
    /\ c2s' = Tail(c2s)
    /\ IF item.tls # (spc = "tls")
       THEN /\ spc' = "closed"
            /\ hist' = [hist EXCEPT !.closedBy = "error"]
            /\ UNCHANGED <<session, last, s2c>>
       ELSE /\ SrvApply(LoopStep(spc, session, item, addr, now), spc, WirePl(item))
            /\ s2c' = s2c \o LoopStep(spc, session, item, addr, now).out

\* the server worker's next step on what the connection holds
HsSrvStep ==
    /\ spc \in {"init", "plain", "accept", "tls"}
    /\ IF spc = "init" THEN HsGreet
       ELSE IF c2s = <<>> THEN HsEof
       ELSE IF spc = "accept" THEN HsAccept(Head(c2s))
       ELSE HsLine(Head(c2s))
    /\ UNCHANGED <<tk, addr, now, cpc, cwrote, fc, px, cl, ut, sk>>

\* a remote that is not the server worker reads what the client wrote and
\* answers with any reply line, or closes the connection
AnyPeerStep ==
    /\ spc = "any"
    /\ \/ /\ c2s # <<>>
          /\ c2s' = Tail(c2s)
          /\ UNCHANGED <<s2c, spc>>
       \/ /\ Len(s2c) < MaxInFlight
          /\ \E l \in AnyReplies : s2c' = Append(s2c, l)
          /\ UNCHANGED <<c2s, spc>>
       \/ /\ spc' = "closed"
          /\ UNCHANGED <<c2s, s2c>>
    /\ UNCHANGED <<tk, session, addr, now, last, hist, cpc, cwrote, fc, px, cl, ut, sk>>

HsNext ==
    \/ CliStep
    \/ HsSrvStep
    \/ AnyPeerStep
    \/ Tick

SpecHandshake == HsInit /\ [][HsNext]_vars

(***************************************************************************)
(* client.rs: Client::run, connect_and_serve and the SOCKS5 handler        *)
(***************************************************************************)
\* how many times run calls connect_and_serve
MaxAttempts == 7
\* how many SOCKS5 CONNECT requests the listener accepts during one tunnel
MaxRequests == 2

\* client.rs 51
MAX_RECONNECT_DELAY == 30

\* the destinations local applications ask for
Destinations == {[host |-> "example.com", port |-> 443], [host |-> "10.0.0.9", port |-> 80]}

Min(a, b) == IF a < b THEN a ELSE b

NextDelayMutNoCap(reconnect_delay) == reconnect_delay * 2

\* client.rs 62
NextDelay(reconnect_delay) == Min(reconnect_delay * 2, MAX_RECONNECT_DELAY)

\* what connect_and_serve returns: every return is an error, one of the `?`
\* of client.rs 74, 79, 89 and 109; Ok(()) at line 111 follows
\* socks_server.run(), whose loop (socks5.rs 72-82) ends only by `?`
ServeReturns == {"Err"}

\* the match of Client::run on the value connect_and_serve returned
\* (client.rs 54-64): the sleep, if any, the next delay, and the count of
\* consecutive errors
run_match(res, c) ==
    IF res = "Ok"
    THEN [c EXCEPT !.pc = "loop", !.reconnect_delay = 2, !.fails = 0]
    ELSE [c EXCEPT !.pc = "loop",
                   !.slept = Some([secs |-> c.reconnect_delay, k |-> c.fails + 1,
                                   afterUp |-> c.wasUp]),
                   !.fails = c.fails + 1,
                   !.reconnect_delay = NextDelay(c.reconnect_delay)]

\* the handler given to Socks5Server::new (client.rs 92-106) serving one
\* CONNECT request: it opens a TCP connection to the destination itself and
\* writes nothing to the tunnel
socks_handler(c, req) ==
    [c EXCEPT !.requests = @ + 1, !.dials = @ \cup {req}]

RunRest == UNCHANGED <<tk, session, spc, addr, now, last, hist, c2s, s2c, cpc, cwrote, fc, px, ut, sk>>

RunInit ==
    /\ cl = [pc |-> "loop", reconnect_delay |-> 2, fails |-> 0, attempts |-> 0,
             connected |-> FALSE, tunnel |-> "none", listening |-> FALSE,
             wasUp |-> FALSE, requests |-> 0, dials |-> {}, frames |-> <<>>,
             slept |-> None]
    /\ tk = IdleTk /\ session = IdleSession /\ spc = "off" /\ addr = "none" /\ now = Now0
    /\ last = IdleLast /\ hist = IdleHist
    /\ c2s = <<>> /\ s2c = <<>> /\ cpc = IdleCpc /\ cwrote = <<>>
    /\ fc = IdleFc /\ px = IdlePx /\ ut = IdleUt
    /\ sk = IdleSk

\* connect_and_serve fails before the tunnel is up: TcpStream::connect or
\* smtp_handshake returns an error (client.rs 74, 79)
RunConnectFail ==
    /\ cl.pc = "loop" /\ cl.attempts < MaxAttempts
    /\ cl' = [cl EXCEPT !.pc = "returned", !.attempts = @ + 1, !.wasUp = FALSE]
    /\ RunRest

\* the handshake completes (client.rs 79-86) and the SOCKS5 listener is
\* bound (client.rs 89-109, socks5.rs 69), or the bind fails
RunTunnelUp ==
    /\ cl.pc = "loop" /\ cl.attempts < MaxAttempts
    /\ \E bound \in BOOLEAN :
         cl' = IF bound
               THEN [cl EXCEPT !.pc = "serving", !.attempts = @ + 1, !.wasUp = TRUE,
                               !.connected = TRUE, !.tunnel = "up",
                               !.listening = TRUE, !.requests = 0]
               ELSE [cl EXCEPT !.pc = "returned", !.attempts = @ + 1, !.wasUp = TRUE,
                               !.connected = TRUE, !.tunnel = "none"]
    /\ RunRest

\* a local application's CONNECT request is accepted and handed to the
\* handler (socks5.rs 73-81, 186-187)
SocksConnect ==
    /\ cl.pc = "serving" /\ cl.requests < MaxRequests
    /\ \E req \in Destinations : cl' = socks_handler(cl, req)
    /\ RunRest

\* listener.accept fails (socks5.rs 73): run returns the error, and
\* connect_and_serve with it, dropping the tunnel stream and the listener
SocksAcceptError ==
    /\ cl.pc = "serving"
    /\ cl' = [cl EXCEPT !.pc = "returned", !.tunnel = "none", !.listening = FALSE]
    /\ RunRest

\* the server closes the tunnel transport; nothing on the client reads it
ServerClosesTunnel ==
    /\ cl.pc = "serving" /\ cl.tunnel = "up"
    /\ cl' = [cl EXCEPT !.tunnel = "server_closed"]
    /\ RunRest

\* Client::run matches on what connect_and_serve returned (client.rs 54-64)
RunMatch ==
    /\ cl.pc = "returned"
    /\ \E res \in ServeReturns : cl' = run_match(res, cl)
    /\ RunRest

RunNext ==
    \/ RunConnectFail
    \/ RunTunnelUp
    \/ SocksConnect
    \/ SocksAcceptError
    \/ ServerClosesTunnel
    \/ RunMatch

SpecRun == RunInit /\ [][RunNext]_vars

\* the client's own steps are taken when they can be; the listener's
\* errors, the applications and the server are not obliged to act
SpecRunLive == SpecRun /\ WF_vars(RunConnectFail \/ RunTunnelUp) /\ WF_vars(RunMatch)

(***************************************************************************)
(* proto/frames.rs: Frame, FrameType and FrameCodec                        *)
(***************************************************************************)
\* frames.rs 10 and 13
MAX_PAYLOAD_SIZE == 65535
FRAME_HEADER_SIZE == 5

\* FrameType as u8 (frames.rs 18-33)
FrameTag ==
    [Data |-> 1, Connect |-> 2, ConnectOk |-> 3, ConnectFail |-> 4,
     Close |-> 5, Keepalive |-> 6, KeepaliveAck |-> 7]

FrameTypes == DOMAIN FrameTag

FrameType_from_u8MutAny(value) == Some("Data")

\* FrameType::from_u8 (frames.rs 36-47)
FrameType_from_u8(value) ==
    IF \E t \in FrameTypes : FrameTag[t] = value
    THEN Some(CHOOSE t \in FrameTypes : FrameTag[t] = value)
    ELSE None

\* Frame::new (frames.rs 61-67)
Frame_new(frame_type, channel_id, payload) ==
    [frame_type |-> frame_type, channel_id |-> channel_id, payload |-> payload]

\* BufMut::put_u16: two bytes, big-endian
put_u16(n) == <<n \div 256, n % 256>>

u16_from_be_bytesMutLow(hi, lo) == lo

\* u16::from_be_bytes and Buf::get_u16 (frames.rs 167, 189)
u16_from_be_bytes(hi, lo) == hi * 256 + lo

\* Frame::serialize (frames.rs 100-107); `as u16` keeps the low 16 bits
serialize(f) ==
    <<FrameTag[f.frame_type]>> \o put_u16(f.channel_id)
        \o put_u16(Len(f.payload) % 65536) \o f.payload

KeepBufferedMutDrop(src) == <<>>

\* what decode leaves in src when it returns Ok(None) or an error: the
\* buffer as it was (frames.rs 161-163, 170-176, 180-184)
KeepBuffered(src) == src

decodeMutDropTrailing(src) ==
    IF Len(src) < FRAME_HEADER_SIZE
    THEN [res |-> "None", src |-> src]
    ELSE IF FrameType_from_u8(src[1]) = None
    THEN [res |-> "InvalidType", value |-> src[1], src |-> src]
    ELSE IF Len(src) < FRAME_HEADER_SIZE + u16_from_be_bytes(src[4], src[5])
    THEN [res |-> "None", src |-> src]
    ELSE [res |-> "Frame",
          frame |-> Frame_new(FrameType_from_u8(src[1])[1],
                              u16_from_be_bytes(src[2], src[3]),
                              SubSeq(src, FRAME_HEADER_SIZE + 1,
                                     FRAME_HEADER_SIZE + u16_from_be_bytes(src[4], src[5]))),
          src |-> <<>>]

\* FrameCodec::decode (frames.rs 159-198): the result and src after the call
decode(src) ==
    IF Len(src) < FRAME_HEADER_SIZE
    THEN [res |-> "None", src |-> KeepBuffered(src)]
    ELSE LET frame_type == src[1]
             payload_len == u16_from_be_bytes(src[4], src[5])
             total_len == FRAME_HEADER_SIZE + payload_len
         IN  IF FrameType_from_u8(frame_type) = None
             THEN [res |-> "InvalidType", value |-> frame_type, src |-> KeepBuffered(src)]
             ELSE IF payload_len > MAX_PAYLOAD_SIZE
             THEN [res |-> "PayloadTooLarge", value |-> payload_len, src |-> KeepBuffered(src)]
             ELSE IF Len(src) < total_len
             THEN [res |-> "None", src |-> KeepBuffered(src)]
             ELSE [res |-> "Frame",
                   frame |-> Frame_new(FrameType_from_u8(frame_type)[1],
                                       u16_from_be_bytes(src[2], src[3]),
                                       SubSeq(src, FRAME_HEADER_SIZE + 1, total_len)),
                   src |-> SubSeq(src, total_len + 1, Len(src))]

\* calling decode until it yields nothing: the frames it yielded, the error
\* that stopped it if any, and what is left in the buffer
RECURSIVE Drain(_, _)
Drain(src, frames) ==
    LET d == decode(src)
    IN  IF d.res = "Frame" THEN Drain(d.src, Append(frames, d.frame))
        ELSE [frames |-> frames, err |-> IF d.res = "None" THEN "none" ELSE d.res,
              src |-> d.src]

(***************************************************************************)
(* One frame, serialized and decoded                                       *)
(***************************************************************************)
\* the payload lengths of the model, up to the largest a u16 declares and
\* one beyond it (Frame::new takes any payload)
PayloadLens == {0, 1, 2, 255, 256, MAX_PAYLOAD_SIZE, MAX_PAYLOAD_SIZE + 1}
ChannelIds == {0, 42, 258, 65535}

PayloadOf(n) == [i \in 1..n |-> (i * 7) % 256]

CodecRest == UNCHANGED <<tk, session, spc, addr, now, last, hist, c2s, s2c, cpc, cwrote, px, cl, ut, sk>>

CodecInit ==
    /\ fc \in {[pc |-> "new", frame |-> Frame_new(t, cid, PayloadOf(n)),
                bytes |-> <<>>, out |-> [res |-> "None", src |-> <<>>]] :
               t \in FrameTypes, cid \in ChannelIds, n \in PayloadLens}
    /\ tk = IdleTk /\ session = IdleSession /\ spc = "off" /\ addr = "none" /\ now = Now0
    /\ last = IdleLast /\ hist = IdleHist
    /\ c2s = <<>> /\ s2c = <<>> /\ cpc = IdleCpc /\ cwrote = <<>>
    /\ px = IdlePx /\ cl = IdleCl /\ ut = IdleUt
    /\ sk = IdleSk

\* FrameCodec::encode (frames.rs 149-152)
CodecEncode ==
    /\ fc.pc = "new"
    /\ fc' = [fc EXCEPT !.pc = "encoded", !.bytes = serialize(fc.frame)]
    /\ CodecRest

\* FrameCodec::decode on the encoded bytes
CodecDecode ==
    /\ fc.pc = "encoded"
    /\ fc' = [fc EXCEPT !.pc = "decoded", !.out = decode(fc.bytes)]
    /\ CodecRest

CodecNext ==
    \/ CodecEncode
    \/ CodecDecode

SpecCodec == CodecInit /\ [][CodecNext]_vars

(***************************************************************************)
(* A FrameCodec fed a byte stream in chunks                                *)
(***************************************************************************)
\* the largest chunk appended to the buffer at once, short of all the rest
MaxChunk == 3

\* the frames the streams are made of
SmallFrames ==
    {Frame_new("Data", 1, <<104, 105>>), Frame_new("ConnectOk", 258, <<>>),
     Frame_new("KeepaliveAck", 0, <<9>>)}

\* bytes that are not a frame: unknown tags, with and without a full header
Garbage == {<<9, 0, 1, 0, 0>>, <<0, 0, 0, 0, 2, 1>>, <<8, 255, 255, 255, 255, 1, 2>>, <<9, 0>>}

\* the byte streams a peer sends: frames, frames followed by garbage,
\* garbage alone, and a stream cut in the middle of a frame
Streams ==
    {serialize(f) \o serialize(g) : f \in SmallFrames, g \in SmallFrames}
    \cup {serialize(f) \o x : f \in SmallFrames, x \in Garbage}
    \cup {x \o serialize(f) : f \in SmallFrames, x \in Garbage}
    \cup {SubSeq(serialize(f) \o serialize(g), 1, Len(serialize(f)) + Len(serialize(g)) - 1) :
            f \in SmallFrames, g \in SmallFrames}

DecRest == UNCHANGED <<tk, session, spc, addr, now, last, hist, c2s, s2c, cpc, cwrote, px, cl, ut, sk>>

DecInit ==
    /\ fc \in {[pc |-> "feeding", stream |-> s, fed |-> 0, cuts |-> <<>>, buf |-> <<>>,
                frames |-> <<>>, err |-> "none"] : s \in Streams}
    /\ tk = IdleTk /\ session = IdleSession /\ spc = "off" /\ addr = "none" /\ now = Now0
    /\ last = IdleLast /\ hist = IdleHist
    /\ c2s = <<>> /\ s2c = <<>> /\ cpc = IdleCpc /\ cwrote = <<>>
    /\ px = IdlePx /\ cl = IdleCl /\ ut = IdleUt
    /\ sk = IdleSk

\* n more bytes of the stream are appended to the buffer and decode is
\* called until it yields nothing; the first error is kept, and cuts
\* remembers the sizes of the chunks
Feed(n) ==
    LET chunk == SubSeq(fc.stream, fc.fed + 1, fc.fed + n)
        d == Drain(fc.buf \o chunk, <<>>)
    IN  fc' = [fc EXCEPT !.fed = @ + n,
                         !.cuts = Append(@, n),
                         !.buf = d.src,
                         !.frames = @ \o d.frames,
                         !.err = IF @ = "none" THEN d.err ELSE @]

\* a chunk of up to MaxChunk bytes arrives
DecFeedChunk ==
    /\ fc.pc = "feeding"
    /\ \E n \in 1..MaxChunk : fc.fed + n <= Len(fc.stream) /\ Feed(n)
    /\ DecRest

\* everything that is left of the stream arrives at once
DecFeedRest ==
    /\ fc.pc = "feeding" /\ fc.fed < Len(fc.stream)
    /\ Feed(Len(fc.stream) - fc.fed)
    /\ DecRest

DecNext ==
    \/ DecFeedChunk
    \/ DecFeedRest

SpecDecoder == DecInit /\ [][DecNext]_vars

(***************************************************************************)
(* Single calls of FrameCodec::decode on a buffer                          *)
(***************************************************************************)
\* what the buffer holds when decode is called: every prefix of a stream
DcBuffers == UNION {{SubSeq(s, 1, k) : k \in 0..Len(s)} : s \in Streams}

DcInit ==
    /\ fc \in {[pc |-> "dc_buffered", src |-> b, out |-> [res |-> "None", src |-> <<>>]] :
                b \in DcBuffers}
    /\ tk = IdleTk /\ session = IdleSession /\ spc = "off" /\ addr = "none" /\ now = Now0
    /\ last = IdleLast /\ hist = IdleHist
    /\ c2s = <<>> /\ s2c = <<>> /\ cpc = IdleCpc /\ cwrote = <<>>
    /\ px = IdlePx /\ cl = IdleCl /\ ut = IdleUt
    /\ sk = IdleSk

\* decode is called on the buffer
DcDecode ==
    /\ fc.pc = "dc_buffered"
    /\ fc' = [fc EXCEPT !.pc = "dc_called", !.out = decode(fc.src)]
    /\ DecRest

\* a frame was yielded: the next call sees what the last one left, with
\* what has arrived since
DcAgain ==
    /\ fc.pc = "dc_called" /\ fc.out.res = "Frame"
    /\ \E more \in {<<>>, <<2>>, <<3, 0, 1, 0, 0>>} :
         fc' = [fc EXCEPT !.pc = "dc_buffered", !.src = fc.out.src \o more]
    /\ DecRest

DcNext ==
    \/ DcDecode
    \/ DcAgain

SpecDecodeCall == DcInit /\ [][DcNext]_vars

(***************************************************************************)
(* socks5.rs: ProxyStream::proxy, two tokio::io::copy loops under select!  *)
(***************************************************************************)
\* how many bytes each endpoint sends
MaxBytes == 2

\* the two directions: from the SOCKS5 client to the stream and back
Dirs == {"client_to_stream", "stream_to_client"}

\* the k-th byte the sender of direction d sends
ByteOf(d, k) == IF d = "client_to_stream" THEN k ELSE 100 + k

IdleDir == [sent |-> <<>>, wire |-> <<>>, eof |-> FALSE, buf |-> <<>>, delivered |-> <<>>]

PxRest == UNCHANGED <<tk, session, spc, addr, now, last, hist, c2s, s2c, cpc, cwrote, fc, cl, ut, sk>>

PxInit ==
    /\ px = [pc |-> "running", first |-> "none", dir |-> [d \in Dirs |-> IdleDir]]
    /\ tk = IdleTk /\ session = IdleSession /\ spc = "off" /\ addr = "none" /\ now = Now0
    /\ last = IdleLast /\ hist = IdleHist
    /\ c2s = <<>> /\ s2c = <<>> /\ cpc = IdleCpc /\ cwrote = <<>>
    /\ fc = IdleFc /\ cl = IdleCl /\ ut = IdleUt
    /\ sk = IdleSk

\* the sending endpoint of direction d writes its next byte to its socket
PxSend ==
    /\ px.pc = "running"
    /\ \E d \in Dirs :
         /\ ~px.dir[d].eof /\ Len(px.dir[d].sent) < MaxBytes
         /\ LET b == ByteOf(d, Len(px.dir[d].sent) + 1)
            IN  px' = [px EXCEPT !.dir[d].sent = Append(@, b), !.dir[d].wire = Append(@, b)]
    /\ PxRest

\* the sending endpoint of direction d closes its writing side
PxClose ==
    /\ px.pc = "running"
    /\ \E d \in Dirs :
         /\ ~px.dir[d].eof
         /\ px' = [px EXCEPT !.dir[d].eof = TRUE]
    /\ PxRest

\* copy reads what has arrived into its buffer (socks5.rs 262-263)
PxCopyRead ==
    /\ px.pc = "running"
    /\ \E d \in Dirs :
         /\ px.dir[d].buf = <<>> /\ px.dir[d].wire # <<>>
         /\ \E n \in 1..Len(px.dir[d].wire) :
              px' = [px EXCEPT !.dir[d].buf = SubSeq(px.dir[d].wire, 1, n),
                               !.dir[d].wire = SubSeq(@, n + 1, Len(@))]
    /\ PxRest

\* copy writes its buffer to the receiving endpoint
PxCopyWrite ==
    /\ px.pc = "running"
    /\ \E d \in Dirs :
         /\ px.dir[d].buf # <<>>
         /\ px' = [px EXCEPT !.dir[d].delivered = @ \o px.dir[d].buf, !.dir[d].buf = <<>>]
    /\ PxRest

\* copy reads end of file and returns; select! takes that branch, drops the
\* other copy and proxy returns Ok, dropping both sockets (socks5.rs 265-274)
PxSelect ==
    /\ px.pc = "running"
    /\ \E d \in Dirs :
         /\ px.dir[d].buf = <<>> /\ px.dir[d].wire = <<>> /\ px.dir[d].eof
         /\ px' = [px EXCEPT !.pc = "done", !.first = d]
    /\ PxRest

PxNext ==
    \/ PxSend
    \/ PxClose
    \/ PxCopyRead
    \/ PxCopyWrite
    \/ PxSelect

SpecProxy == PxInit /\ [][PxNext]_vars

(***************************************************************************)
(* server.rs: Server.users behind its RwLock, reload_users and the AUTH    *)
(* handlers of concurrent sessions                                         *)
(***************************************************************************)
\* how many times reload_users is called
MaxReloads == 2
\* how many AUTH commands each session sends
MaxAuths == 1

AuthSessions == {"s1", "s2"}

Lit203_0_113_5 == <<50, 48, 51, 46, 48, 46, 49, 49, 51, 46, 53>>

\* two versions of the users file: in the first al holds SecretK and may
\* only connect from 203.0.113.5, in the second al holds SecretS3 and may
\* connect from anywhere
UserTables ==
    [v1 |-> (NameAl :> [secret |-> SecretK, whitelist |-> <<Lit203_0_113_5>>]),
     v2 |-> (NameAl :> [secret |-> SecretS3, whitelist |-> <<>>])]

\* the two maps the Auth arm copies from the table (server.rs 318-329)
SecretsOf(users) == [u \in DOMAIN users |-> users[u].secret]
WhitelistOf(users) == [u \in DOMAIN users |-> users[u].whitelist]

\* every session presents a fresh token minted with SecretK for al, from
\* 10.1.2.3
ReloadToken == generate(SecretK, NameAl, Now0)
ReloadAddr == <<10, 1, 2, 3>>

CanWriteMutAlways(lock) == TRUE

\* RwLock::write is granted when nobody holds the lock (server.rs 83)
CanWrite(lock) == lock.readers = {} /\ ~lock.writer

\* RwLock::read is granted when no writer holds the lock (server.rs 315)
CanRead(lock) == ~lock.writer

UtRest == UNCHANGED <<tk, session, spc, addr, now, last, hist, c2s, s2c, cpc, cwrote, fc, px, cl, sk>>

UtInit ==
    /\ ut = [users |-> UserTables.v1,
             lock |-> [readers |-> {}, writer |-> FALSE],
             reload |-> [pc |-> "idle", loaded |-> None, calls |-> 0, failed |-> 0],
             sess |-> [s \in AuthSessions |->
                         [pc |-> "idle", auths |-> 0, user_secrets |-> None,
                          whitelist |-> None, result |-> None, failed_before |-> 0]]]
    /\ tk = IdleTk /\ session = IdleSession /\ spc = "off" /\ addr = "none" /\ now = Now0
    /\ last = IdleLast /\ hist = IdleHist
    /\ c2s = <<>> /\ s2c = <<>> /\ cpc = IdleCpc /\ cwrote = <<>>
    /\ fc = IdleFc /\ px = IdlePx /\ cl = IdleCl
    /\ sk = IdleSk

ReloadFailedMutLock(u) ==
    [u EXCEPT !.reload.calls = @ + 1, !.reload.failed = @ + 1,
              !.reload.pc = "locked", !.reload.loaded = Some(UserTables.v2),
              !.lock.writer = TRUE]

\* from_file returns an error and `?` returns it from reload_users (server.rs
\* 82): the server as it is left, with the call counted
ReloadFailed(u) == [u EXCEPT !.reload.calls = @ + 1, !.reload.failed = @ + 1]

\* reload_users reads the users file (server.rs 82): the file holds one of
\* the versions, or cannot be read or parsed and the call returns the error
ReloadRead ==
    /\ ut.reload.pc = "idle" /\ ut.reload.calls < MaxReloads
    /\ \/ \E v \in DOMAIN UserTables :
            ut' = [ut EXCEPT !.reload.pc = "loaded", !.reload.loaded = Some(UserTables[v]),
                             !.reload.calls = @ + 1]
       \/ ut' = ReloadFailed(ut)
    /\ UtRest

\* reload_users takes the write lock (server.rs 83)
ReloadLock ==
    /\ ut.reload.pc = "loaded" /\ CanWrite(ut.lock)
    /\ ut' = [ut EXCEPT !.reload.pc = "locked", !.lock.writer = TRUE]
    /\ UtRest

\* reload_users replaces the table and returns, dropping the guard
\* (server.rs 84-86)
ReloadStore ==
    /\ ut.reload.pc = "locked"
    /\ ut' = [ut EXCEPT !.users = ut.reload.loaded[1], !.lock.writer = FALSE,
                        !.reload.pc = "idle", !.reload.loaded = None]
    /\ UtRest

\* a session's Auth arm takes the read lock (server.rs 315)
AuthLock ==
    /\ \E s \in AuthSessions :
         /\ ut.sess[s].pc = "idle" /\ ut.sess[s].auths < MaxAuths /\ CanRead(ut.lock)
         /\ ut' = [ut EXCEPT !.sess[s].pc = "locked", !.sess[s].auths = @ + 1,
                             !.sess[s].user_secrets = None, !.sess[s].whitelist = None,
                             !.sess[s].result = None,
                             !.sess[s].failed_before = ut.reload.failed,
                             !.lock.readers = @ \cup {s}]
    /\ UtRest

\* it copies the secrets (server.rs 318-322)
AuthCopySecrets ==
    /\ \E s \in AuthSessions :
         /\ ut.sess[s].pc = "locked"
         /\ ut' = [ut EXCEPT !.sess[s].pc = "have_secrets",
                             !.sess[s].user_secrets = Some(SecretsOf(ut.users))]
    /\ UtRest

\* it copies the allowlists (server.rs 325-329)
AuthCopyWhitelist ==
    /\ \E s \in AuthSessions :
         /\ ut.sess[s].pc = "have_secrets"
         /\ ut' = [ut EXCEPT !.sess[s].pc = "have_both",
                             !.sess[s].whitelist = Some(WhitelistOf(ut.users))]
    /\ UtRest

\* it drops the guard (server.rs 331)
AuthUnlock ==
    /\ \E s \in AuthSessions :
         /\ ut.sess[s].pc = "have_both"
         /\ ut' = [ut EXCEPT !.sess[s].pc = "unlocked", !.lock.readers = @ \ {s}]
    /\ UtRest

\* it verifies the token and checks the allowlist on its copies
\* (server.rs 333-366)
AuthFinish ==
    /\ \E s \in AuthSessions :
         /\ ut.sess[s].pc = "unlocked"
         /\ ut' = [ut EXCEPT !.sess[s].pc = "done",
                             !.sess[s].result =
                                 Some(AuthDecide(ut.sess[s].user_secrets[1],
                                                 ut.sess[s].whitelist[1],
                                                 ReloadToken, ReloadAddr, now))]
    /\ UtRest

UtNext ==
    \/ ReloadRead
    \/ ReloadLock
    \/ ReloadStore
    \/ AuthLock
    \/ AuthCopySecrets
    \/ AuthCopyWhitelist
    \/ AuthUnlock
    \/ AuthFinish

SpecReload == UtInit /\ [][UtNext]_vars

(***************************************************************************)
(* socks5.rs: handle_client, one SOCKS5 connection from an application     *)
(***************************************************************************)
\* socks5.rs 13-27
VERSION == 5
AUTH_NONE == 0
AUTH_NO_ACCEPTABLE == 255
CMD_CONNECT == 1
ATYP_IPV4 == 1
ATYP_DOMAIN == 3
ATYP_IPV6 == 4

\* Reply as u8 (socks5.rs 32-42)
Reply ==
    [Success |-> 0, GeneralFailure |-> 1, NotAllowed |-> 2, NetworkUnreachable |-> 3,
     HostUnreachable |-> 4, ConnectionRefused |-> 5, TtlExpired |-> 6,
     CommandNotSupported |-> 7, AddressNotSupported |-> 8]

\* the local address of the socket the handler opened
ProxyLocalAddr == [ip |-> <<192, 168, 1, 7>>, port |-> 50000]

send_replyMutZero(reply, bound_addr) == <<5, 0, 0, 1, 0, 0, 0, 0, 0, 0>>

\* send_reply (socks5.rs 205-237): the bytes written; the bound address is
\* the given IPv4 address or, without one, 0.0.0.0:0
send_reply(reply, bound_addr) ==
    <<VERSION, Reply[reply], 0>>
        \o (IF bound_addr # None
            THEN <<ATYP_IPV4>> \o bound_addr[1].ip \o put_u16(bound_addr[1].port)
            ELSE <<ATYP_IPV4, 0, 0, 0, 0>> \o put_u16(0))

MethodAcceptableMutAny(methods) == TRUE

\* methods.contains(&AUTH_NONE) (socks5.rs 108)
MethodAcceptable(methods) == \E i \in 1..Len(methods) : methods[i] = AUTH_NONE

\* what handle_client has done when it returns: the events in order
\* (writes to the application, the handler's dial, the proxying of what
\* follows), the stage it reached, how many input bytes it consumed
SkDone(ev, stage, used, result) ==
    [ev |-> ev, stage |-> stage, used |-> used, result |-> result]

SkWrite(bytes) == [k |-> "write", bytes |-> bytes]

\* the call of the handler and what follows it (socks5.rs 183-201)
socks_connect(inp, used, ev, host, port, dial) ==
    IF dial = "ok"
    THEN SkDone(ev \o <<[k |-> "dial", host |-> host, port |-> port],
                        SkWrite(send_reply("Success", Some(ProxyLocalAddr))),
                        [k |-> "proxy", bytes |-> SubSeq(inp, used + 1, Len(inp))]>>,
                "proxy", Len(inp), "Ok")
    ELSE SkDone(ev \o <<[k |-> "dial", host |-> host, port |-> port],
                        SkWrite(send_reply("HostUnreachable", None))>>,
                "connect", used, "Err")

\* the destination address of the request that starts after `at` bytes
\* (socks5.rs 142-181); an IPv6 host is kept as its sixteen bytes
socks_address(inp, at, ev, dial) ==
    LET atyp == inp[at + 4]
        a == at + 4
    IN  IF atyp = ATYP_IPV4 THEN
            IF Len(inp) < a + 6 THEN SkDone(ev, "request", Len(inp), "Err")
            ELSE socks_connect(inp, a + 6, ev, IpToString(SubSeq(inp, a + 1, a + 4)),
                               u16_from_be_bytes(inp[a + 5], inp[a + 6]), dial)
        ELSE IF atyp = ATYP_DOMAIN THEN
            IF Len(inp) < a + 1 \/ Len(inp) < a + 1 + inp[a + 1] + 2
            THEN SkDone(ev, "request", Len(inp), "Err")
            ELSE socks_connect(inp, a + 1 + inp[a + 1] + 2, ev,
                               SubSeq(inp, a + 2, a + 1 + inp[a + 1]),
                               u16_from_be_bytes(inp[a + inp[a + 1] + 2], inp[a + inp[a + 1] + 3]),
                               dial)
        ELSE IF atyp = ATYP_IPV6 THEN
            IF Len(inp) < a + 18 THEN SkDone(ev, "request", Len(inp), "Err")
            ELSE socks_connect(inp, a + 18, ev, [v6 |-> SubSeq(inp, a + 1, a + 16)],
                               u16_from_be_bytes(inp[a + 17], inp[a + 18]), dial)
        ELSE SkDone(Append(ev, SkWrite(send_reply("AddressNotSupported", None))),
                    "request", a, "Err")

\* the request (socks5.rs 119-139) that starts after `at` bytes
socks_request(inp, at, ev, dial) ==
    IF Len(inp) < at + 4 THEN SkDone(ev, "request", Len(inp), "Err")
    ELSE IF inp[at + 1] # VERSION THEN SkDone(ev, "request", at + 4, "Err")
    ELSE IF inp[at + 2] # CMD_CONNECT
    THEN SkDone(Append(ev, SkWrite(send_reply("CommandNotSupported", None))),
                "request", at + 4, "Err")
    ELSE socks_address(inp, at, ev, dial)

\* handle_client (socks5.rs 87-202) on the bytes inp the application
\* sends before it closes, with the handler's dial succeeding or failing
socks_handle_client(inp, dial) ==
    IF Len(inp) < 2 THEN SkDone(<<>>, "greeting", Len(inp), "Err")
    ELSE IF inp[1] # VERSION THEN SkDone(<<>>, "greeting", 2, "Err")
    ELSE IF Len(inp) < 2 + inp[2] THEN SkDone(<<>>, "greeting", Len(inp), "Err")
    ELSE IF ~MethodAcceptable(SubSeq(inp, 3, 2 + inp[2]))
    THEN SkDone(<<SkWrite(<<VERSION, AUTH_NO_ACCEPTABLE>>)>>, "greeting", 2 + inp[2], "Err")
    ELSE socks_request(inp, 2 + inp[2], <<SkWrite(<<VERSION, AUTH_NONE>>)>>, dial)

\* what applications send: a greeting, a request, and bytes to relay
SkGreetings ==
    {<<5, 0>>, <<5, 1, 0>>, <<5, 1, 2>>, <<5, 2, 1, 2>>, <<5, 2, 2, 0>>, <<5, 3, 1, 0, 2>>,
     <<4, 1, 0>>, <<0, 1, 0>>, <<5, 2, 0>>, <<5>>}

V6Bytes == <<32, 1, 13, 184, 0, 0, 0, 0, 0, 0, 0, 0, 0, 0, 0, 1>>

SkRequests ==
    {<<5, 1, 0, 1, 10, 0, 0, 9, 0, 80>>,
     <<5, 1, 0, 3, 3, 97, 46, 98, 1, 187>>,
     <<5, 1, 0, 3, 0, 0, 25>>,
     <<5, 1, 0, 4>> \o V6Bytes \o <<0, 80>>,
     <<5, 2, 0, 1, 10, 0, 0, 9, 0, 80>>,
     <<5, 3, 0, 3, 3, 97, 46, 98, 1, 187>>,
     <<5, 1, 0, 2, 10, 0, 0, 9, 0, 80>>,
     <<5, 1, 0, 0>>,
     <<5, 2, 0, 9>>,
     <<4, 1, 0, 1, 10, 0, 0, 9, 0, 80>>,
     <<5, 1, 0>>,
     <<5, 1, 0, 1, 10, 0>>,
     <<5, 1, 0, 3, 3, 97>>,
     <<>>}

SkPayloads == {<<>>, <<71, 69, 84>>}

SkRest == UNCHANGED <<tk, session, spc, addr, now, last, hist, c2s, s2c, cpc, cwrote, fc, px, cl, ut>>

SkInit ==
    /\ sk \in {[pc |-> "accepted", greeting |-> g, request |-> r, payload |-> p,
                inp |-> g \o r \o p, dial |-> d,
                out |-> SkDone(<<>>, "none", 0, "none")] :
               g \in SkGreetings, r \in SkRequests, p \in SkPayloads, d \in {"ok", "fail"}}
    /\ tk = IdleTk /\ session = IdleSession /\ spc = "off" /\ addr = "none" /\ now = Now0
    /\ last = IdleLast /\ hist = IdleHist
    /\ c2s = <<>> /\ s2c = <<>> /\ cpc = IdleCpc /\ cwrote = <<>>
    /\ fc = IdleFc /\ px = IdlePx /\ cl = IdleCl /\ ut = IdleUt

\* the task spawned for the connection runs handle_client to its end and
\* drops the application's socket (socks5.rs 77-81)
SkHandle ==
    /\ sk.pc = "accepted"
    /\ sk' = [sk EXCEPT !.pc = "closed", !.out = socks_handle_client(sk.inp, sk.dial)]
    /\ SkRest

SkNext ==
    \/ SkHandle

SpecSocks == SkInit /\ [][SkNext]_vars

(***************************************************************************)
(* crypto.rs: the comparison of the presented token with the expected one  *)
(***************************************************************************)
\* the number of byte pairs the comparison examines (crypto.rs 73-78 and
\* 130-135): none when the lengths differ, since && does not evaluate its
\* right side; otherwise Iterator::all stops at the first pair that differs
ComparedPairs(expected, token_b64) ==
    IF Len(expected) # Len(token_b64) THEN 0
    ELSE LET differ == {i \in 1..Len(expected) : expected[i] # token_b64[i]}
         IN  IF differ = {} THEN Len(expected)
             ELSE CHOOSE i \in differ : \A j \in differ : i <= j

\* the token the verifier expects
CmpExpected == generate(SecretK, NameAl, Now0)

\* the tokens presented: the expected one, every token that differs from
\* it in one byte, and one that is a byte shorter
CmpTokens ==
    {CmpExpected, SubSeq(CmpExpected, 1, Len(CmpExpected) - 1)}
    \cup {[CmpExpected EXCEPT ![i] = b] : i \in 1..Len(CmpExpected), b \in ModBytes}

CmpRest == UNCHANGED <<session, spc, addr, now, last, hist, c2s, s2c, cpc, cwrote, fc, px, cl, ut, sk>>

CmpInit ==
    /\ tk \in {[pc |-> "start", expected |-> CmpExpected, token |-> t,
                valid |-> FALSE, pairs |-> 0] : t \in CmpTokens}
    /\ session = IdleSession /\ spc = "off" /\ addr = "none" /\ now = Now0
    /\ last = IdleLast /\ hist = IdleHist
    /\ c2s = <<>> /\ s2c = <<>> /\ cpc = IdleCpc /\ cwrote = <<>>
    /\ fc = IdleFc /\ px = IdlePx /\ cl = IdleCl /\ ut = IdleUt
    /\ sk = IdleSk

\* the verifier compares the presented token with the expected one
CmpCompare ==
    /\ tk.pc = "start"
    /\ tk' = [tk EXCEPT !.pc = "compared",
                        !.valid = TokenEq(tk.expected, tk.token),
                        !.pairs = ComparedPairs(tk.expected, tk.token)]
    /\ CmpRest

CmpNext ==
    \/ CmpCompare

SpecCompare == CmpInit /\ [][CmpNext]_vars

(***************************************************************************)
(* proto/frames.rs: Frame::connect and Frame::parse_connect                *)
(***************************************************************************)
\* String::from_utf8_lossy: a valid sequence is kept; otherwise every byte
\* that is not ASCII becomes U+FFFD (exact when no well-formed multi-byte
\* character is inside the invalid sequence)
from_utf8_lossy(b) ==
    IF \A i \in 1..Len(b) : b[i] < 128 THEN b
    ELSE IF Utf8Ok(b) THEN b
    ELSE LET RECURSIVE Lossy(_)
             Lossy(s) == IF s = <<>> THEN <<>>
                         ELSE (IF s[1] < 128 THEN <<s[1]>> ELSE <<239, 191, 189>>)
                                  \o Lossy(Tail(s))
         IN  Lossy(b)

\* Frame::connect (frames.rs 75-82); `as u8` keeps the low 8 bits of the
\* host's length
Frame_connect(channel_id, host, port) ==
    Frame_new("Connect", channel_id, <<Len(host) % 256>> \o host \o put_u16(port))

\* Frame::parse_connect (frames.rs 110-127)
parse_connect(f) ==
    IF f.frame_type # "Connect" THEN None
    ELSE IF Len(f.payload) < 1 THEN None
    ELSE IF Len(f.payload) - 1 < f.payload[1] + 2 THEN None
    ELSE Some([host |-> from_utf8_lossy(SubSeq(f.payload, 2, 1 + f.payload[1])),
               port |-> u16_from_be_bytes(f.payload[2 + f.payload[1]],
                                          f.payload[3 + f.payload[1]])])

\* host names of 0, 1, 11, 255, 256 and 257 bytes
HostLens == {0, 1, 11, 255, 256, 257}
HostOf(n) == [i \in 1..n |-> 97 + (i % 26)]
Ports == {0, 80, 443, 65535}

\* frames that are not the output of Frame::connect: other types, and
\* CONNECT payloads cut short
OddFrames ==
    {Frame_new(t, 1, Frame_connect(1, HostOf(3), 443).payload) : t \in FrameTypes \ {"Connect"}}
    \cup {Frame_new("Connect", 1, p) :
            p \in {<<>>, <<0>>, <<0, 1>>, <<3, 97, 98, 99, 1>>, <<3, 97, 98>>, <<255, 97, 0, 80>>}}

ConnRest == UNCHANGED <<tk, session, spc, addr, now, last, hist, c2s, s2c, cpc, cwrote, px, cl, ut, sk>>

ConnInit ==
    /\ fc \in {[pc |-> "new", kind |-> "connect", channel_id |-> cid, host |-> HostOf(n),
                port |-> p, frame |-> Frame_new("Data", 0, <<>>), bytes |-> <<>>,
                out |-> [res |-> "None", src |-> <<>>], parsed |-> None] :
               cid \in ChannelIds, n \in HostLens, p \in Ports}
          \cup {[pc |-> "built", kind |-> "odd", channel_id |-> f.channel_id, host |-> <<>>,
                 port |-> 0, frame |-> f, bytes |-> <<>>,
                 out |-> [res |-> "None", src |-> <<>>], parsed |-> None] : f \in OddFrames}
    /\ tk = IdleTk /\ session = IdleSession /\ spc = "off" /\ addr = "none" /\ now = Now0
    /\ last = IdleLast /\ hist = IdleHist
    /\ c2s = <<>> /\ s2c = <<>> /\ cpc = IdleCpc /\ cwrote = <<>>
    /\ px = IdlePx /\ cl = IdleCl /\ ut = IdleUt
    /\ sk = IdleSk

\* Frame::connect builds the frame
ConnBuild ==
    /\ fc.pc = "new"
    /\ fc' = [fc EXCEPT !.pc = "built",
                        !.frame = Frame_connect(fc.channel_id, fc.host, fc.port)]
    /\ ConnRest

\* the frame is serialized
ConnEncode ==
    /\ fc.pc = "built"
    /\ fc' = [fc EXCEPT !.pc = "encoded", !.bytes = serialize(fc.frame)]
    /\ ConnRest

\* the bytes are decoded
ConnDecode ==
    /\ fc.pc = "encoded"
    /\ fc' = [fc EXCEPT !.pc = "decoded", !.out = decode(fc.bytes)]
    /\ ConnRest

\* parse_connect is called on the decoded frame
ConnParse ==
    /\ fc.pc = "decoded" /\ fc.out.res = "Frame"
    /\ fc' = [fc EXCEPT !.pc = "parsed", !.parsed = parse_connect(fc.out.frame)]
    /\ ConnRest

ConnNext ==
    \/ ConnBuild
    \/ ConnEncode
    \/ ConnDecode
    \/ ConnParse

SpecConnect == ConnInit /\ [][ConnNext]_vars

(***************************************************************************)
(* server.rs: read_line                                                    *)
(***************************************************************************)
\* the size of the temporary buffer of one stream.read (server.rs 438)
ReadChunk == 1024

\* how many bytes one read delivers at most when the peer's segments are
\* small
ReadSizes == {1, ReadChunk}

\* buf.windows(2).position(|w| w == b"\r\n"), counted from 1; 0 when absent
CrlfPos(b) ==
    IF \E i \in 1..(Len(b) - 1) : b[i] = 13 /\ b[i + 1] = 10
    THEN CHOOSE i \in 1..(Len(b) - 1) :
            /\ b[i] = 13 /\ b[i + 1] = 10
            /\ \A j \in 1..(i - 1) : ~(b[j] = 13 /\ b[j + 1] = 10)
    ELSE 0

Run(n, byte) == [i \in 1..n |-> byte]

\* what the peer sends before it closes: "QUIT\r\n"; two lines in one
\* segment; a bare LF inside a line; a line of 1025 bytes; 1030 bytes with
\* no line end at all
RlStreams ==
    {<<81, 85, 73, 84, 13, 10>>,
     <<69, 72, 76, 79, 13, 10, 81, 85, 73, 84, 13, 10>>,
     <<65, 10, 81, 85, 73, 84, 13, 10>>,
     Run(ReadChunk + 1, 65) \o <<13, 10>>,
     Run(ReadChunk + 6, 65)}

RlRest == UNCHANGED <<tk, session, spc, addr, now, last, hist, c2s, s2c, cpc, cwrote, fc, px, cl, ut>>

RlInit ==
    /\ sk \in {[pc |-> "line_wait", stream |-> s, buf |-> <<>>, lines |-> <<>>] :
                s \in RlStreams}
    /\ tk = IdleTk /\ session = IdleSession /\ spc = "off" /\ addr = "none" /\ now = Now0
    /\ last = IdleLast /\ hist = IdleHist
    /\ c2s = <<>> /\ s2c = <<>> /\ cpc = IdleCpc /\ cwrote = <<>>
    /\ fc = IdleFc /\ px = IdlePx /\ cl = IdleCl /\ ut = IdleUt

\* read_line finds a line end in buf and returns the line (server.rs
\* 433-437); the loop of the worker handles it and calls read_line again
RlReturn ==
    /\ sk.pc = "line_wait"
    /\ CrlfPos(sk.buf) # 0
    /\ sk' = [sk EXCEPT !.lines = Append(@, from_utf8_lossy(SubSeq(sk.buf, 1, CrlfPos(sk.buf) - 1))),
                        !.buf = SubSeq(sk.buf, CrlfPos(sk.buf) + 2, Len(sk.buf))]
    /\ RlRest

\* no line end in buf: stream.read delivers up to 1024 bytes, which are
\* appended to buf (server.rs 439-444)
RlRead ==
    /\ sk.pc = "line_wait"
    /\ CrlfPos(sk.buf) = 0
    /\ sk.stream # <<>>
    /\ \E n \in ReadSizes :
         /\ n <= Len(sk.stream) \/ n = ReadChunk
         /\ sk' = [sk EXCEPT !.buf = @ \o SubSeq(sk.stream, 1, Min(n, Len(sk.stream))),
                             !.stream = SubSeq(@, Min(n, Len(sk.stream)) + 1, Len(@))]
    /\ RlRest

\* no line end in buf and the read returns 0: read_line returns None
\* (server.rs 440-442)
RlEof ==
    /\ sk.pc = "line_wait"
    /\ CrlfPos(sk.buf) = 0
    /\ sk.stream = <<>>
    /\ sk' = [sk EXCEPT !.pc = "line_eof"]
    /\ RlRest

RlNext ==
    \/ RlReturn
    \/ RlRead
    \/ RlEof

SpecReadLine == RlInit /\ [][RlNext]_vars

(***************************************************************************)
(* server.rs: the line buffer of a worker across the TLS upgrade           *)
(***************************************************************************)
\* how many lines one read may put into the buffer
MaxSegment == 2

\* the lines the peer sends in this model
PipeLines ==
    {pl \in PeerLines : pl.verb \in {"EHLO", "STARTTLS", "BINARY", "QUIT"}
                        \/ (pl.tok = "al_fresh" /\ pl.mech = "PLAIN")}

\* what one stream.read appends to buf: one or more whole lines
Segments == UNION {[1..n -> PipeLines] : n \in 1..MaxSegment}

PipeRest == UNCHANGED <<tk, addr, now, s2c, cpc, fc, px, cl, ut, sk>>

PipeInit ==
    /\ tk = IdleTk
    /\ session = IdleSession /\ spc = "init" /\ addr \in Addrs /\ now = Now0
    /\ last = IdleLast /\ hist = IdleHist
    /\ c2s = <<>> /\ s2c = <<>> /\ cpc = IdleCpc /\ cwrote = <<>>
    /\ fc = IdleFc /\ px = IdlePx /\ cl = IdleCl /\ ut = IdleUt
    /\ sk = IdleSk

\* handle_client up to its loop: the greeting and the empty buf (server.rs
\* 115-128)
PipeGreet ==
    /\ spc = "init"
    /\ session' = [session EXCEPT !.state = "Greeted"]
    /\ spc' = "plain"
    /\ last' = [IdleLast EXCEPT !.phase = "plain", !.cmd = "greet", !.pre = session,
                                !.codes = Codes(Response_greeting),
                                !.out = Response_greeting, !.at = now]
    /\ UNCHANGED <<hist, c2s, cwrote>>
    /\ PipeRest

\* read_line finds no line in buf and reads from the stream of the phase
\* the worker is in (server.rs 439-444); each line is marked with the
\* transport it arrived on
PipeRead ==
    /\ spc \in {"plain", "tls"}
    /\ c2s = <<>>
    /\ \E seg \in Segments :
         c2s' = [i \in 1..Len(seg) |-> [line |-> seg[i], via |-> spc]]
    /\ UNCHANGED <<session, spc, last, hist, cwrote>>
    /\ PipeRest

\* read_line returns the first line of buf (server.rs 433-437) and the loop
\* of the phase handles it; buf goes along into handle_tls_session
\* (server.rs 168) and is dropped when the worker returns
PipeLine ==
    /\ spc \in {"plain", "tls"}
    /\ c2s # <<>>
    /\ SrvApply(LoopStep(spc, session, Head(c2s).line, addr, now), spc, Head(c2s).line)
    /\ cwrote' = <<[phase |-> spc, via |-> Head(c2s).via, verb |-> Head(c2s).line.verb]>>
    /\ c2s' = IF LoopStep(spc, session, Head(c2s).line, addr, now).ctl \in {"continue", "accept"}
              THEN Tail(c2s) ELSE <<>>
    /\ PipeRest

\* tls_acceptor.accept on the stream (server.rs 165); buf is not touched
PipeTlsAccept ==
    /\ spc = "accept"
    /\ \E ok \in BOOLEAN :
         IF ok
         THEN /\ session' = [session EXCEPT !.state = "TlsStarted"]
              /\ spc' = "tls"
              /\ hist' = [hist EXCEPT !.tls = TRUE]
              /\ UNCHANGED c2s
         ELSE /\ spc' = "closed"
              /\ hist' = [hist EXCEPT !.closedBy = "error"]
              /\ c2s' = <<>>
              /\ UNCHANGED session
    /\ UNCHANGED <<last, cwrote>>
    /\ PipeRest

\* read_line finds no line in buf and the read returns 0
PipePeerClosed ==
    /\ spc \in {"plain", "tls"}
    /\ c2s = <<>>
    /\ spc' = "closed"
    /\ hist' = [hist EXCEPT !.closedBy = "peer"]
    /\ UNCHANGED <<session, last, c2s, cwrote>>
    /\ PipeRest

PipeNext ==
    \/ PipeGreet
    \/ PipeRead
    \/ PipeLine
    \/ PipeTlsAccept
    \/ PipePeerClosed

SpecPipeline == PipeInit /\ [][PipeNext]_vars

(***************************************************************************)
(* Claims about the token                                                  *)
(***************************************************************************)
Accepted(u) == [valid |-> TRUE, username |-> Some(u)]

\* C6, as stated: for every secret, username and timestamp, verifying the
\* generated token against a lookup that maps the username to the secret
\* returns (true, username) if and only if now - ts <= max_age.
C6_RoundTripEveryName ==
    (tk.pc = "verified" /\ tk.how = "generated")
        => ((tk.res = Accepted(tk.user)) <=> (now - tk.ts <= tk.max_age))

\* C6, amended: the same for every username that holds no ':' (the token's
\* field separator), for verify_multi_user and for verify.
C6_RoundTrip ==
    (tk.pc = "verified" /\ tk.how = "generated" /\ ~HasColon(tk.user))
        => /\ (tk.res = Accepted(tk.user)) <=> (now - tk.ts <= tk.max_age)
           /\ (tk.res1 = Accepted(tk.user)) <=> (now - tk.ts <= tk.max_age)
           /\ tk.res \in {Accepted(tk.user), Rejected}

\* a token exactly max_age seconds old has been verified and accepted
C6_Witness ==
    /\ tk.pc = "verified" /\ tk.how = "generated" /\ ~HasColon(tk.user)
    /\ tk.max_age > 0 /\ now - tk.ts = tk.max_age
    /\ tk.res = Accepted(tk.user)

\* C7: verification returns (false, None) whenever the presented token
\* differs from the generated one in a byte, was generated with another
\* secret, carries another username, or carries a timestamp older than
\* max_age.
C7_TamperedOrExpiredRejected ==
    (/\ tk.pc = "verified"
     /\ \/ tk.how \in {"modified", "wrong_secret", "renamed"}
        \/ now - tk.ts > tk.max_age)
        => (tk.res = Rejected /\ tk.res1 = Rejected)

\* a fresh token with one byte overwritten has been verified
C7_Witness ==
    /\ tk.pc = "verified" /\ tk.how = "modified"
    /\ now - tk.ts <= tk.max_age /\ tk.ts <= now
    /\ ~HasColon(tk.user)
    /\ tk.res = Rejected

\* C8: verification rejects every token whose timestamp lies in the future.
C8_FutureRejected ==
    (tk.pc = "verified" /\ tk.ts > now) => (~tk.res.valid /\ ~tk.res1.valid)

(***************************************************************************)
(* Claims about the server's cover phase                                   *)
(***************************************************************************)
Sent(code) == \E i \in 1..Len(last.codes) : last.codes[i] = code

UserSecrets == [u \in DOMAIN UserTable |-> UserTable[u].secret]

\* the AUTH line handled last was "AUTH PLAIN <token>" with a token that
\* verifies at the time it was handled
LastTokenVerifies ==
    /\ last.cmd = "Auth" /\ ToUpper(last.mech) = "PLAIN" /\ last.tok # "none"
    /\ verify_multi_user(TokenTable[last.tok], UserSecrets, MaxAgeSecs, last.at).valid

LastTokenUser == DecodeToken(TokenTable[last.tok])[1].username

\* C1: 299 is sent, and BinaryMode entered, only from state Authenticated,
\* hence only after a 235 on the same connection; a BINARY in any other
\* state gets no 299 and leaves the session unchanged.
C1_BinaryOnlyWhenAuthenticated ==
    /\ last.cmd = "Binary" =>
          /\ Sent(299) <=> last.pre.state = "Authenticated"
          /\ Sent(299) => (session.state = "BinaryMode" /\ hist.sent235)
          /\ ~Sent(299) => session = last.pre
    /\ last.cmd # "Binary" => ~Sent(299)
    /\ session.state = "BinaryMode" <=> hist.sent299
    /\ hist.sent299 => hist.sent235

\* a BINARY has been answered 299 inside TLS, after a 235
C1_Witness ==
    /\ last.cmd = "Binary" /\ last.phase = "tls" /\ Sent(299)
    /\ last.pre.state = "Authenticated" /\ hist.sent235
    /\ session.state = "BinaryMode"

\* C2: a session on which TLS is not active never becomes Authenticated:
\* every AUTH PLAIN received in the plain-TCP phase is answered 535 and no
\* 235 is sent before TLS is active.
C2_NoAuthBeforeTls ==
    /\ session.state = "Authenticated" => hist.tls
    /\ hist.sent235 => hist.tls
    /\ (last.phase = "plain" /\ last.cmd = "Auth" /\ last.pre.state = "Greeted")
          => last.codes = <<535>>

\* C3: the server never sends 299 and never enters BinaryMode on a
\* connection on which TLS is not active.
C3_NoBinaryBeforeTls ==
    (hist.sent299 \/ session.state = "BinaryMode") => hist.tls

\* C4: when the token verifies, the server answers 235 and becomes
\* Authenticated if and only if the user's allowlist is empty, holds the
\* source IP literally, or holds a CIDR block containing it.
C4_AllowlistDecides ==
    (LastTokenVerifies /\ last.phase = "tls")
        => /\ Sent(235) <=> is_ip_whitelisted(UserTable, LastTokenUser, IpToString(addr))
           /\ Sent(235) <=> (session.state = "Authenticated"
                             /\ session.username = Some(LastTokenUser))
           /\ ~Sent(235) => last.codes = <<535>>

\* C5: every failed authentication attempt (mechanism missing or not PLAIN,
\* token undecodable or malformed, timestamp older than 300 s, user unknown,
\* HMAC wrong, source IP not on the allowlist) is answered 535 5.7.8 and
\* leaves the session's state and username unchanged.  The attempts are the
\* AUTH lines the handlers evaluate: every AUTH inside TLS, and an AUTH in
\* state Greeted on the plain stream.
C5_FailedAuthIs535 ==
    (/\ last.cmd = "Auth"
     /\ last.phase = "tls" \/ last.pre.state = "Greeted")
        => /\ \/ ToUpper(last.mech) # "PLAIN"
              \/ last.tok \in {"none", "al_stale", "al_wrongkey", "zz_unknown",
                               "not_base64", "two_parts"}
              \/ (last.tok = "al_edge" /\ last.at > Now0)
              \/ (last.tok \in {"b_fresh", "c_fresh"}
                  /\ ~is_ip_whitelisted(UserTable, LastTokenUser, IpToString(addr)))
              => ~Sent(235)
           /\ ~Sent(235) => /\ last.codes = Codes(Response_auth_failed)
                            /\ session = last.pre
                            /\ last.ctl = "continue"

\* a stale token has been refused in state TlsStarted, which the session keeps
C5_Witness ==
    /\ last.cmd = "Auth" /\ last.phase = "tls" /\ last.tok = "al_stale"
    /\ last.pre.state = "TlsStarted" /\ session.state = "TlsStarted"
    /\ last.codes = <<535>>

(***************************************************************************)
(* Claims about the handshake                                              *)
(***************************************************************************)
\* C9: when a client whose username and secret are in the user table, and
\* whose source IP is allowed, dials the server, the handshake runs to
\* completion: the client's handshake returns success and the server
\* session is in BinaryMode.  Stated on the finished handshake: it has not
\* returned an error, and when it has returned, the session is in BinaryMode.
C9_HandshakeCompletes ==
    (/\ cpc.peer = "server"
     /\ is_ip_whitelisted(UserTable, cpc.cfg.username, IpToString(addr))
     /\ cpc.at \in {"ok", "err"})
        => (cpc.at = "ok" /\ session.state = "BinaryMode")

\* C10: the client writes AUTH PLAIN, and likewise the second EHLO and
\* BINARY, only to a transport it has upgraded to TLS.
C10_AuthOnlyOverTls ==
    \A i \in 1..Len(cwrote) :
        (cwrote[i].verb \in {"AUTH", "BINARY"} \/ cwrote[i].at = "starttls")
            => cwrote[i].tls

(***************************************************************************)
(* Claims about the client's serving loop                                  *)
(***************************************************************************)
\* C11: every SOCKS5 CONNECT request the client accepts is served by a
\* CONNECT frame written to the tunnel, one per request, and the client
\* opens no TCP connection to a requested destination itself.
C11_ConnectGoesThroughTunnel ==
    /\ cl.dials = {}
    /\ Len(cl.frames) = cl.requests

C19_ResetAfterSuccess ==
    (cl.slept # None /\ cl.slept[1].afterUp) => cl.slept[1].secs = 2

\* C20: when the server closes an established tunnel, the client
\* eventually leaves the serving state (connect_and_serve returns and run
\* starts over).
C20_CloseLeadsToReconnect ==
    (cl.tunnel = "server_closed") ~> (cl.pc # "serving")

(***************************************************************************)
(* Claims about the binary phase                                           *)
(***************************************************************************)
\* C12: once the server has replied 299 on a TLS connection, the session
\* ends only because the peer closed the transport or because of a fatal
\* frame or transport error.
C12_BinaryPhaseStaysOpen ==
    (hist.tls /\ hist.sent299 /\ spc = "closed") => hist.closedBy \in {"peer", "error"}

(***************************************************************************)
(* Claims about the frame codec                                            *)
(***************************************************************************)
\* C13: for every frame type, channel id and payload of length 0 to 65535,
\* decoding the serialization of the frame yields that frame, with the same
\* type, channel id and payload, and leaves the buffer empty.
C13_FrameRoundTrip ==
    (fc.pc = "decoded" /\ Len(fc.frame.payload) <= MAX_PAYLOAD_SIZE) =>
        /\ fc.out.res = "Frame"
        /\ fc.out.frame = fc.frame
        /\ fc.out.src = <<>>

\* a CONNECT_OK frame on channel 258 with a payload of 65535 bytes has
\* made the round trip
C13_Witness ==
    /\ fc.pc = "decoded" /\ fc.frame.frame_type = "ConnectOk"
    /\ fc.frame.channel_id = 258 /\ Len(fc.frame.payload) = MAX_PAYLOAD_SIZE
    /\ fc.out.res = "Frame" /\ Len(fc.out.frame.payload) = MAX_PAYLOAD_SIZE

\* C14: however the stream is cut into chunks, the frames yielded so far
\* and the error, if any, are those that decoding the bytes received so
\* far in one piece yields; so at the end of the stream they are those of
\* the whole stream supplied at once.
C14_ChunkingIndependent ==
    LET whole == Drain(SubSeq(fc.stream, 1, fc.fed), <<>>)
    IN  /\ fc.frames = whole.frames
        /\ fc.err = whole.err
        /\ fc.buf = whole.src

\* a stream of two frames has been fed in more than one chunk, the first
\* chunk ending inside a frame, and both frames have been yielded
C14_Witness ==
    /\ fc.pc = "feeding" /\ fc.fed = Len(fc.stream)
    /\ Len(fc.cuts) = 3 /\ fc.cuts[1] = 3 /\ fc.cuts[2] = 2
    /\ Len(fc.frames) = 2 /\ fc.err = "none"
    /\ fc.stream = serialize(Frame_new("Data", 1, <<104, 105>>))
                     \o serialize(Frame_new("KeepaliveAck", 0, <<9>>))

C15_DeliveredEqualsSent ==
    px.pc = "done" => \A d \in Dirs : px.dir[d].delivered = px.dir[d].sent

(***************************************************************************)
(* Claims about reloading the user table                                   *)
(***************************************************************************)
\* C17: under any interleaving of reload_users with the AUTH handling of
\* the sessions, the secrets and the allowlists an authentication attempt
\* works on are those of one single version of the user table, and its
\* outcome is the outcome under that version.
C17_NoTornView ==
    \A s \in AuthSessions :
        ut.sess[s].whitelist # None =>
            \E v \in DOMAIN UserTables :
                /\ ut.sess[s].user_secrets = Some(SecretsOf(UserTables[v]))
                /\ ut.sess[s].whitelist = Some(WhitelistOf(UserTables[v]))
                /\ ut.sess[s].result # None =>
                     ut.sess[s].result[1] =
                         AuthDecide(SecretsOf(UserTables[v]), WhitelistOf(UserTables[v]),
                                    ReloadToken, ReloadAddr, now)

\* a reload to the second version has completed between two
\* authentications: one session decided on the first version, the other on
\* the second
C17_Witness ==
    /\ ut.users = UserTables.v2 /\ ut.reload.pc = "idle" /\ ut.reload.calls >= 1
    /\ ut.sess["s1"].pc = "done" /\ ut.sess["s2"].pc = "done"
    /\ ut.sess["s1"].user_secrets = Some(SecretsOf(UserTables.v1))
    /\ ut.sess["s2"].user_secrets = Some(SecretsOf(UserTables.v2))

\* C21: once the client has started connecting, its SOCKS5 listener is
\* bound in every state: while the tunnel is down, during every reconnect
\* attempt and before every backoff sleep.
C21_ListenerStaysBound ==
    cl.attempts > 0 => cl.listening

(***************************************************************************)
(* Claims about the SOCKS5 listener                                        *)
(***************************************************************************)
SkWrites == SelectSeq(sk.out.ev, LAMBDA e : e.k = "write")
SkDials == SelectSeq(sk.out.ev, LAMBDA e : e.k = "dial")
SkProxied == SelectSeq(sk.out.ev, LAMBDA e : e.k = "proxy")

\* the greeting is complete: VER, NMETHODS and that many methods
SkGreetingComplete == Len(sk.greeting) >= 2 /\ Len(sk.greeting) = 2 + sk.greeting[2]

SkOffersNoAuth == \E i \in 3..Len(sk.greeting) : sk.greeting[i] = 0

\* C22: for a greeting with VER = 5, if 0x00 is not among the offered
\* methods (NMETHODS = 0 included) the reply is 05 FF and the connection
\* is closed with no request read; otherwise 05 00 is written first, before
\* the request is read.  A greeting with another VER never reaches the
\* request stage.
C22_MethodNegotiation ==
    (sk.pc = "closed" /\ Len(sk.greeting) >= 2) =>
        /\ (SkGreetingComplete /\ sk.greeting[1] = 5 /\ ~SkOffersNoAuth) =>
              /\ sk.out.ev = <<SkWrite(<<5, 255>>)>>
              /\ sk.out.stage = "greeting" /\ sk.out.used = Len(sk.greeting)
              /\ sk.out.result = "Err"
        /\ (SkGreetingComplete /\ sk.greeting[1] = 5 /\ SkOffersNoAuth) =>
              /\ Len(sk.out.ev) >= 1 /\ sk.out.ev[1] = SkWrite(<<5, 0>>)
              /\ sk.out.stage # "greeting"
        /\ sk.greeting[1] # 5 =>
              /\ sk.out.ev = <<>> /\ sk.out.stage = "greeting"
              /\ sk.out.used = 2

\* an empty method list has been refused with 05 FF although a well-formed
\* CONNECT request followed it
C22_Witness ==
    /\ sk.pc = "closed" /\ sk.greeting = <<5, 0>>
    /\ sk.request = <<5, 1, 0, 1, 10, 0, 0, 9, 0, 80>>
    /\ sk.out.ev = <<SkWrite(<<5, 255>>)>> /\ sk.out.used = 2

\* the request follows a successful negotiation, has VER = 5, and is
\* complete: its four-byte header and, for CONNECT to a known address
\* type, the address and the port
SkNegotiated == SkGreetingComplete /\ sk.greeting[1] = 5 /\ SkOffersNoAuth

SkAddressLen ==
    CASE sk.request[4] = 1 -> 6
      [] sk.request[4] = 4 -> 18
      [] sk.request[4] = 3 -> IF Len(sk.request) >= 5 THEN 1 + sk.request[5] + 2 ELSE 1
      [] OTHER -> 0

SkRequestRejected == sk.request[2] # 1 \/ sk.request[4] \notin {1, 3, 4}

SkRequestComplete ==
    /\ Len(sk.request) >= 4 /\ sk.request[1] = 5
    /\ SkRequestRejected \/ Len(sk.request) = 4 + SkAddressLen

SkExpectedCode ==
    IF sk.request[2] # 1 THEN 7
    ELSE IF sk.request[4] \notin {1, 3, 4} THEN 8
    ELSE IF sk.dial = "fail" THEN 4
    ELSE 0

\* C23: a request with VER = 5 after a successful negotiation gets exactly
\* one reply: 07 for a command other than CONNECT, 08 for an unknown
\* address type, 04 when the open fails, 00 when it succeeds.  A failure
\* reply carries 0.0.0.0:0, ends the connection and is followed by no
\* relayed byte; a rejected request is never dialed; the success reply
\* comes before the relaying.
C23_OneReplyPerRequest ==
    (sk.pc = "closed" /\ SkNegotiated /\ SkRequestComplete) =>
        /\ Len(SkWrites) = 2
        /\ SkWrites[2].bytes[1] = 5 /\ SkWrites[2].bytes[2] = SkExpectedCode
        /\ SkExpectedCode # 0 =>
              /\ SkWrites[2].bytes = <<5, SkExpectedCode, 0, 1, 0, 0, 0, 0, 0, 0>>
              /\ sk.out.ev[Len(sk.out.ev)] = SkWrites[2]
              /\ SkProxied = <<>> /\ sk.out.result = "Err"
        /\ Len(SkDials) = IF SkRequestRejected THEN 0 ELSE 1
        /\ SkExpectedCode = 0 =>
              /\ Len(SkProxied) = 1 /\ SkProxied[1].bytes = sk.payload
              /\ sk.out.ev[Len(sk.out.ev) - 1] = SkWrites[2]
              /\ sk.out.ev[Len(sk.out.ev)] = SkProxied[1]

\* a CONNECT to a domain name whose open failed has been answered
\* 05 04 00 01 00 00 00 00 00 00 after one dial, with bytes to relay waiting
C23_Witness ==
    /\ sk.pc = "closed" /\ SkNegotiated /\ sk.dial = "fail"
    /\ sk.request = <<5, 1, 0, 3, 3, 97, 46, 98, 1, 187>> /\ sk.payload # <<>>
    /\ Len(SkDials) = 1 /\ SkDials[1].host = <<97, 46, 98>> /\ SkDials[1].port = 443
    /\ SkWrites[2].bytes = <<5, 4, 0, 1, 0, 0, 0, 0, 0, 0>>

C25_NotAllowlistedCloses ==
    (LastTokenVerifies /\ last.phase = "tls"
     /\ ~is_ip_whitelisted(UserTable, LastTokenUser, IpToString(addr))) =>
        /\ last.codes = <<535>>
        /\ session = last.pre
        /\ spc = "closed"

(***************************************************************************)
(* Claims about the token comparison                                       *)
(***************************************************************************)
\* C26: for inputs of equal length the comparison examines the same
\* number of byte pairs, all of them, wherever the first mismatch is and
\* whether there is one.
C26_ConstantTime ==
    (tk.pc = "compared" /\ Len(tk.token) = Len(tk.expected)) =>
        tk.pairs = Len(tk.expected)

\* C27: for every frame that can be constructed, the length field of its
\* serialization equals the number of payload bytes that follow the header.
C27_LengthFieldIsPayloadLength ==
    fc.pc \in {"encoded", "decoded"} =>
        /\ u16_from_be_bytes(fc.bytes[4], fc.bytes[5]) = Len(fc.frame.payload)
        /\ u16_from_be_bytes(fc.bytes[4], fc.bytes[5]) = Len(fc.bytes) - FRAME_HEADER_SIZE

\* C30: decoding the serialization of Frame::connect(channel_id, host,
\* port) yields a CONNECT frame with that channel id whose parse_connect
\* returns (host, port), for every channel id, host and port; and
\* parse_connect returns None for a frame that is not CONNECT and for a
\* payload shorter than 1 + host_len + 2 bytes.
C30_ConnectRoundTrip ==
    fc.pc = "parsed" =>
        /\ fc.kind = "connect" =>
              /\ fc.out.frame.frame_type = "Connect"
              /\ fc.out.frame.channel_id = fc.channel_id
              /\ fc.parsed = Some([host |-> fc.host, port |-> fc.port])
        /\ (\/ fc.out.frame.frame_type # "Connect"
            \/ fc.out.frame.payload = <<>>
            \/ Len(fc.out.frame.payload) < 1 + fc.out.frame.payload[1] + 2)
              => fc.parsed = None

\* C28: a server session whose handshake does not complete is eventually
\* terminated by the server, even when the peer stays silent, stops
\* mid-handshake or stalls in the TLS handshake.
C28_StalledSessionEnds == (spc \in {"plain", "accept", "tls"}) ~> (spc = "closed")

\* an EHLO or HELO the worker did not answer with 503
EhloAccepted ==
    /\ last.cmd \in {"Ehlo", "Helo"}
    /\ last.out # Response_bad_sequence

\* C29: every reply to an accepted EHLO/HELO is a 250 group whose lines but
\* the last start with "250-" and whose last line is "250 8BITMIME"; it
\* advertises AUTH PLAIN LOGIN, advertises STARTTLS exactly when TLS is not
\* active on the connection, and leaves the session state unchanged.
C29_EhloReply ==
    EhloAccepted =>
        /\ Len(last.out) >= 2
        /\ \A i \in 1..(Len(last.out) - 1) :
              last.out[i].code = 250 /\ last.out[i].sep = "-"
        /\ last.out[Len(last.out)] = [code |-> 250, sep |-> " ", text |-> "8BITMIME"]
        /\ \E i \in 1..Len(last.out) : last.out[i].text = "AUTH PLAIN LOGIN"
        /\ (\E i \in 1..Len(last.out) : last.out[i].text = "STARTTLS")
              <=> last.phase = "plain"
        /\ session.state = last.pre.state

\* an EHLO inside TLS on an authenticated session, answered without STARTTLS
C29_Witness ==
    /\ EhloAccepted
    /\ last.phase = "tls"
    /\ last.pre.state = "Authenticated"
    /\ Len(last.out) = 3
    /\ session.state = "Authenticated"

(***************************************************************************)
(* Claims about the client's handshake order                               *)
(***************************************************************************)
\* the commands of the handshake, the position at which each is written and
\* the reply code read just before it
HandshakeOrder ==
    <<[verb |-> "EHLO", mech |-> "", at |-> "greeting", code |-> 220],
      [verb |-> "STARTTLS", mech |-> "", at |-> "ehlo1", code |-> 250],
      [verb |-> "EHLO", mech |-> "", at |-> "starttls", code |-> 220],
      [verb |-> "AUTH", mech |-> "PLAIN", at |-> "ehlo2", code |-> 250],
      [verb |-> "BINARY", mech |-> "", at |-> "auth", code |-> 235]>>

\* the number of commands written when the client waits at a position
WrittenAt(pc) ==
    CASE pc = "greeting" -> 0
      [] pc = "ehlo1" -> 1
      [] pc = "starttls" -> 2
      [] pc = "ehlo2" -> 3
      [] pc = "auth" -> 4
      [] OTHER -> 5

\* the reply code the client waits for at a position
ExpectedCodeAt(pc) ==
    CASE pc \in {"greeting", "starttls"} -> 220
      [] pc \in {"ehlo1", "ehlo2"} -> 250
      [] pc = "auth" -> 235
      [] OTHER -> 299

\* C31: the client writes EHLO, STARTTLS, EHLO, AUTH PLAIN, BINARY in this
\* order, each only after reading the complete expected reply to the
\* previous one (a 250 group up to its "250 " line), and it aborts, writing
\* nothing further, on the first line that does not start with the expected
\* code and when the server closes the connection.
C31_HandshakeSequential ==
    cpc.at # "off" =>
        /\ Len(cwrote) <= Len(HandshakeOrder)
        /\ \A i \in 1..Len(cwrote) :
              /\ cwrote[i].verb = HandshakeOrder[i].verb
              /\ cwrote[i].mech = HandshakeOrder[i].mech
              /\ cwrote[i].at = HandshakeOrder[i].at
              /\ cwrote[i].after # None
              /\ cwrote[i].after[1].code = HandshakeOrder[i].code
              /\ HandshakeOrder[i].code = 250 => cwrote[i].after[1].sep = " "
        /\ cpc.at \notin {"err", "ok"} => Len(cwrote) = WrittenAt(cpc.at)
        /\ cpc.at = "ok" => Len(cwrote) = 5 /\ cpc.read[1].code = 299
        /\ cpc.at = "err" => Len(cwrote) = WrittenAt(cpc.from)
        /\ (cpc.from # "none" /\ (cpc.read = None \/ cpc.read[1].code # ExpectedCodeAt(cpc.from)))
              => cpc.at = "err"

\* the attempt was abandoned on a 535 to AUTH, after four commands
C31_Witness ==
    /\ cpc.at = "err" /\ cpc.from = "auth"
    /\ cpc.read # None /\ cpc.read[1].code = 535
    /\ Len(cwrote) = 4 /\ cwrote[4].verb = "AUTH"

\* a recognised verb that is out of order for the state it arrives in:
\* BINARY before authentication, STARTTLS when TLS is active or the state is
\* not Greeted, EHLO or AUTH in a plain state that does not permit them
OutOfOrder ==
    \/ last.cmd = "Binary" /\ last.pre.state # "Authenticated"
    \/ last.cmd = "StartTls" /\ (last.phase = "tls" \/ last.pre.state # "Greeted")
    \/ last.cmd \in {"Ehlo", "Helo"} /\ last.phase = "plain"
          /\ last.pre.state \notin {"Initial", "Greeted"}
    \/ last.cmd = "Auth" /\ last.phase = "plain" /\ last.pre.state # "Greeted"

\* C32: in the plain and in the TLS phase a recognised verb that is out of
\* order for the current state is answered 503 Bad sequence of commands and
\* leaves the session unchanged.
C32_OutOfOrderGets503 ==
    (last.phase \in {"plain", "tls"} /\ OutOfOrder) =>
        /\ last.out = Response_bad_sequence
        /\ session = last.pre

\* the line handled last was read in the command loop (it is not the
\* greeting) and Command::parse gives its verb no arm of its own in the loop
VerbNotRecognised ==
    /\ last.phase \in {"plain", "tls"} /\ last.cmd # "greet"
    /\ Command_parse(last.verb) \in {"Unknown", "Mail", "Rcpt", "Data"}

\* C33 as stated: every line whose verb is not recognised, and MAIL, RCPT
\* and DATA, is answered 502 and leaves the session unchanged.
C33_EveryUnknownGets502 ==
    VerbNotRecognised =>
        /\ last.out = Response_command_unrecognized
        /\ session = last.pre

\* C33: a line that is not empty and whose verb is not recognised, and
\* likewise MAIL, RCPT and DATA, is answered 502 Command not recognized and
\* leaves the session state and username unchanged; an empty line is
\* skipped without a reply; no 250 or 354 is ever sent to MAIL, RCPT, DATA.
C33_UnknownGets502 ==
    VerbNotRecognised =>
        /\ last.verb # "" =>
              /\ last.out = Response_command_unrecognized
              /\ last.codes = <<502>>
        /\ last.verb = "" => last.out = <<>>
        /\ session = last.pre
        /\ ~Sent(250) /\ ~Sent(354)

\* MAIL inside TLS on an authenticated session, refused with 502
C33_Witness ==
    /\ last.cmd = "Mail" /\ last.phase = "tls"
    /\ last.pre.state = "Authenticated" /\ last.pre.username # None
    /\ last.codes = <<502>>
    /\ session = last.pre

\* C34: in the plain and in the TLS phase QUIT is answered 221 Bye, moves
\* the session to the Quit state and closes the connection, after which no
\* command is processed on it.
C34_QuitClosesInQuitState ==
    (last.cmd = "Quit" /\ last.phase \in {"plain", "tls"}) =>
        /\ last.out = Response_goodbye
        /\ spc = "closed"
        /\ session.state = "Quit"

\* C35: the server never holds more than 1 KB (1024 bytes) of received
\* input that contains no CRLF, and no line longer than 1 KB is returned to
\* the command loop.
C35_LineBounded ==
    sk.pc \in {"line_wait", "line_eof"} =>
        /\ CrlfPos(sk.buf) = 0 => Len(sk.buf) <= 1024
        /\ \A i \in 1..Len(sk.lines) : Len(sk.lines[i]) <= 1024

\* the payload length the header at the front of the buffer declares
DeclaredLen(src) == src[4] * 256 + src[5]

\* C36: decode yields nothing and leaves the buffer unchanged when fewer
\* than 5 bytes, or fewer than 5 + declared-length bytes of a frame with a
\* valid type, are buffered; on a complete frame it removes exactly the
\* first 5 + length bytes and leaves the trailing bytes, in order.
C36_DecodeConsumesExactly ==
    fc.pc = "dc_called" =>
        /\ Len(fc.src) < 5 => (fc.out.res = "None" /\ fc.out.src = fc.src)
        /\ (Len(fc.src) >= 5 /\ fc.src[1] \in 1..7 /\ Len(fc.src) < 5 + DeclaredLen(fc.src))
              => (fc.out.res = "None" /\ fc.out.src = fc.src)
        /\ (Len(fc.src) >= 5 /\ fc.src[1] \in 1..7 /\ Len(fc.src) >= 5 + DeclaredLen(fc.src))
              => /\ fc.out.res = "Frame"
                 /\ fc.out.frame.payload = SubSeq(fc.src, 6, 5 + DeclaredLen(fc.src))
                 /\ fc.out.src = SubSeq(fc.src, 5 + DeclaredLen(fc.src) + 1, Len(fc.src))
                 /\ Len(fc.out.src) = Len(fc.src) - (5 + DeclaredLen(fc.src))

\* a complete frame followed by the first bytes of the next one: the frame
\* is yielded and those bytes stay
C36_Witness ==
    /\ fc.pc = "dc_called" /\ fc.out.res = "Frame"
    /\ Len(fc.src) = 7 /\ Len(fc.out.src) = 2
    /\ fc.out.src = SubSeq(fc.src, 6, 7)

\* C37: every command the server handles in the TLS phase was received
\* inside the TLS channel; bytes that arrived in plaintext before the TLS
\* handshake are never handled as commands of the TLS phase.
C37_TlsCommandsCameOverTls ==
    (cwrote # <<>> /\ spc # "off" /\ cwrote[1].phase = "tls") => cwrote[1].via = "tls"

\* C38: the username is set exactly when the state is Authenticated or
\* BinaryMode, and it is the username named by the token of the most recent
\* successful AUTH on the connection; a failed AUTH after a successful one
\* leaves the username and the Authenticated state as they are.
C38_UsernameFollowsAuth ==
    spc # "off" =>
        /\ session.username # None <=> session.state \in {"Authenticated", "BinaryMode"}
        /\ session.username = hist.authed
        /\ (last.cmd = "Auth" /\ ~Sent(235) /\ last.pre.state = "Authenticated")
              => session = last.pre

\* an AUTH failed with 535 on a session that al had authenticated, and the
\* session is still al's and Authenticated
C38_Witness ==
    /\ last.cmd = "Auth" /\ Sent(535)
    /\ last.pre.state = "Authenticated"
    /\ session.username = Some(NameAl) /\ hist.authed = Some(NameAl)
    /\ session.state = "Authenticated"

\* the place of a state in the order Initial, Greeted, TlsStarted,
\* Authenticated, BinaryMode
Rank(state) ==
    CASE state = "Initial" -> 0
      [] state = "Greeted" -> 1
      [] state = "TlsStarted" -> 2
      [] state = "Authenticated" -> 3
      [] state = "BinaryMode" -> 4
      [] OTHER -> 5

\* C39: the SMTP state of a session only moves forward in the order
\* Initial, Greeted, TlsStarted, Authenticated, BinaryMode; TlsStarted is
\* entered only from Greeted; binary_mode is true exactly in BinaryMode.
C39_StateOnlyForward ==
    /\ [](session.binary_mode <=> session.state = "BinaryMode")
    /\ [][/\ Rank(session'.state) >= Rank(session.state)
          /\ (session'.state = "TlsStarted" /\ session.state # "TlsStarted")
                => session.state = "Greeted"]_vars

\* a session that went through STARTTLS and AUTH and reached BinaryMode
C39_Witness ==
    /\ session.state = "BinaryMode" /\ session.binary_mode
    /\ hist.tls /\ hist.sent235 /\ hist.sent299
    /\ last.pre.state = "Authenticated"

\* C40: when reload_users fails on reading or parsing the users file, the
\* user table is left as it was, the write lock is not taken, and later
\* authentications are decided by the old table.
C40_FailedReloadKeepsTable ==
    /\ [][ut'.reload.failed > ut.reload.failed =>
             /\ ut'.users = ut.users
             /\ ut'.lock = ut.lock
             /\ ut'.reload.pc = "idle" /\ ut'.reload.loaded = None
             /\ ut'.sess = ut.sess]_vars
    /\ [](ut.reload.calls = ut.reload.failed =>
             /\ ut.users = UserTables.v1
             /\ ~ut.lock.writer
             /\ \A s \in AuthSessions :
                   /\ ut.sess[s].user_secrets \in {None, Some(SecretsOf(UserTables.v1))}
                   /\ ut.sess[s].whitelist \in {None, Some(WhitelistOf(UserTables.v1))}
                   /\ ut.sess[s].result # None =>
                        ut.sess[s].result[1] =
                            AuthDecide(SecretsOf(UserTables.v1), WhitelistOf(UserTables.v1),
                                       ReloadToken, ReloadAddr, now))

\* both reloads failed, and a session that began its AUTH after a failure
\* was decided on the first version of the table
C40_Witness ==
    /\ ut.reload.failed = 2 /\ ut.reload.calls = 2
    /\ ut.users = UserTables.v1
    /\ ut.sess["s1"].pc = "done" /\ ut.sess["s1"].failed_before >= 1
    /\ ut.sess["s1"].user_secrets = Some(SecretsOf(UserTables.v1))

====
